---- MODULE Spec2Model ----
(***************************************************************************)
(* Share lifecycle, OTP sub-protocol and access resolution of the QR-Docs  *)
(* Express backend.  The store (users, documents, shares,                  *)
(* otp_verifications, share_dismissals, access_logs) is the state; every   *)
(* route handler                                                           *)
(* is one action.  Time is a tick counter; e-mail addresses are small      *)
(* integers whose even member is the lower-case spelling of the odd one.   *)
(***************************************************************************)
EXTENDS Integers, FiniteSets, Sequences, TLC

(* ------------------------------ bounds -------------------------------- *)
MaxTime   == 1      \* the clock runs over 0..MaxTime
MaxRows   == 2      \* rows shares, otp_verifications and share_dismissals hold together
MaxUsers  == 2      \* rows the users table may hold
MaxDocs   == 1      \* rows the documents table may hold
MaxEmail  == 2      \* e-mail spellings 0..MaxEmail
MaxCode   == 2      \* OTP codes 1..MaxCode
OtpTtl    == 1      \* OTP validity window in ticks (OTP_TTL_MIN, configurable)

(* --------------------------- value domains ---------------------------- *)
NULL == -1                         \* SQL NULL / JS null for numeric columns
Unspecified == "unspecified"       \* req.body.access absent (JS null)

Times    == 0..MaxTime
Emails   == 0..MaxEmail
Codes    == 1..MaxCode
Procs    == 1..2                   \* two concurrent requests

\* String(x).toLowerCase() / SQL LOWER(): 2k and 2k+1 spell the same address
Lower(e) == IF e = NULL THEN NULL ELSE 2 * (e \div 2)

VARIABLES
  now,          \* wall clock, now() / new Date()
  users,        \* users table: set of [user_id, email]
  documents,    \* documents table: set of [document_id, owner_user_id, is_public]
  shares,       \* shares table
  otps,         \* otp_verifications table
  dismissals,   \* share_dismissals table: set of <<share_id, user_id>>
  access_logs,  \* access_logs table: the events on record
  resp,         \* the response of the last view / download request
  pc,           \* per concurrent request: the await it is suspended at
  loc           \* per concurrent request: its local variables

vars == <<now, users, documents, shares, otps, dismissals, access_logs, resp, pc, loc>>
store == <<users, documents, shares, otps, dismissals, access_logs>>

(* ------------------------------ responses ----------------------------- *)
\* res.status(status).json({...}) of a mutating handler
Resp(status, msg, sid, reused) ==
  [status |-> status, msg |-> msg, share_id |-> sid, reused |-> reused]

\* what a view / download route answered: route, status, body
Served(op, status, msg) == [op |-> op, status |-> status, msg |-> msg]

NoResp == Served("none", 0, "")

\* the local variables of a request that is not running
NoLoc ==
  [op |-> "none", u |-> NULL, d |-> NULL, to_email |-> NULL, access |-> Unspecified,
   expiry_time |-> NULL, to_user_id |-> NULL, finalAccess |-> Unspecified,
   sid |-> NULL,
   client |-> FALSE,    \* the request holds a client of the pool
   tx |-> FALSE,        \* a transaction is open on the client it took
   at |-> NULL,         \* now() of that transaction: its start time
   status |-> 0, share_id |-> NULL, reused |-> FALSE]

(* ------------------------------ queries ------------------------------- *)
\* SELECT ... FROM users WHERE LOWER(email)=LOWER($1) LIMIT 1
UsersByEmail(e) == {u \in users : e # NULL /\ Lower(u.email) = Lower(e)}
UserRegistered(e) == UsersByEmail(e) # {}
UserByEmail(e) == CHOOSE u \in UsersByEmail(e) : TRUE

\* SELECT user_id FROM users WHERE email = $1 LIMIT 1   (case-sensitive)
UsersByEmailExact(e) == {u \in users : e # NULL /\ u.email = e}

UserIds == {u.user_id : u \in users}

DocById(d) == {x \in documents : x.document_id = d}
Owns(u, d) == \E x \in documents : x.document_id = d /\ x.owner_user_id = u

ShareById(sid) == {s \in shares : s.share_id = sid}
ShareByToken(tok) == {s \in shares : s.share_token = tok}

\* new Date(expiry_time) <= new Date()      /  NOT (expiry_time > now())
ExpiredLE(s) == s.expiry_time # NULL /\ s.expiry_time <= now
\* dayjs(expiry_time).isBefore(dayjs())
ExpiredBefore(s) == s.expiry_time # NULL /\ s.expiry_time < now
\* is_revoked = FALSE AND (expiry_time IS NULL OR expiry_time > now())
ActiveShare(s) == ~s.is_revoked /\ ~ExpiredLE(s)

\* the recipient a share row is bound to
RecipientIdentity(to_user_id, to_user_email) ==
  IF to_user_id # NULL THEN <<"user", to_user_id>>
  ELSE IF to_user_email # NULL THEN <<"email", Lower(to_user_email)>>
  ELSE <<"none", NULL>>

ShareTuple(s) ==
  <<s.document_id, s.from_user_id,
    RecipientIdentity(s.to_user_id, s.to_user_email), s.access>>

\* is_verified = FALSE AND expiry_time > now()
ActiveOtp(o) == ~o.is_verified /\ o.expiry_time > now
\* is_verified = TRUE AND expiry_time > now()
VerifiedOtp(o) == o.is_verified /\ o.expiry_time > now

\* INSERT INTO access_logs(share_id, document_id, viewer_user_id, action)
LogEntry(share_id, document_id, viewer_user_id, action) ==
  [share_id |-> share_id, document_id |-> document_id,
   viewer_user_id |-> viewer_user_id, action |-> action]

\* ... SELECT $1, document_id, $2, action FROM shares WHERE share_id=$1
LogOfShare(sid, viewer_user_id, action) ==
  {LogEntry(sid, s.document_id, viewer_user_id, action) : s \in ShareById(sid)}

Max(S) == IF S = {} THEN 0 ELSE CHOOSE x \in S : \A y \in S : y <= x

\* share ids a row of any table still carries
UsedShareIds ==
  ({s.share_id : s \in shares} \cup {o.share_id : o \in otps}
    \cup {l.share_id : l \in access_logs} \cup {d[1] : d \in dismissals}) \ {NULL}

\* ids are handed out in insertion order, so created_at orders rows as ids do
NextShareId == Max(UsedShareIds) + 1
NextOtpId == Max({o.otp_id : o \in otps}) + 1
NextUserId == Cardinality(users) + 1
NextDocId == Cardinality(documents) + 1

Rows == Cardinality(shares) + Cardinality(otps) + Cardinality(dismissals)

\* the tables and the share id range have room for one more shares row
RoomForShare == Rows < MaxRows /\ NextShareId <= MaxRows

(* ------------------------------- Init --------------------------------- *)
\* a deployment whose first account exists, registered with a mixed-case
\* spelling of its address; every other table is empty
Init ==
  /\ now = 0
  /\ users = {[user_id |-> 1, email |-> 1]}
  /\ documents = {}
  /\ shares = {}
  /\ otps = {}
  /\ dismissals = {}
  /\ access_logs = {}
  /\ resp = NoResp
  /\ pc = [p \in Procs |-> "idle"]
  /\ loc = [p \in Procs |-> NoLoc]

(* ------------------------------- clock -------------------------------- *)
Tick ==
  /\ now < MaxTime
  /\ now' = now + 1
  /\ UNCHANGED <<store, resp, pc, loc>>

(* ------------------------- database triggers -------------------------- *)
\* trigger raising "duplicate active private share" on INSERT INTO shares
DuplicateActivePrivateShare(row) ==
  /\ row.access = "private"
  /\ \E s \in shares : ActiveShare(s) /\ ShareTuple(s) = ShareTuple(row)

\* trigger prevent_duplicate_active_otp() raising "only one active ..."
DuplicateActiveOtp(user_id, share_id) ==
  \E o \in otps : o.user_id = user_id /\ o.share_id = share_id /\ ActiveOtp(o)

\* UNIQUE constraint on users.email (error code 23505)
EmailTaken(e) == UserRegistered(e)

(* ------------------------------ accounts ------------------------------ *)
RegisterResp(e) ==
  IF EmailTaken(e) THEN Resp(409, "Email already registered", NULL, FALSE)
  ELSE Resp(201, "", NULL, FALSE)

\* POST /auth/register, with the backfill of pending-email shares
Register(e) ==
  /\ Cardinality(users) < MaxUsers
  /\ UNCHANGED <<now, documents, otps, dismissals, access_logs, resp, pc, loc>>
  /\ IF RegisterResp(e).status = 201
     THEN /\ users' = users \cup {[user_id |-> NextUserId, email |-> e]}
          /\ shares' = {IF s.to_user_id = NULL /\ s.to_user_email # NULL
                           /\ Lower(s.to_user_email) = Lower(e)
                        THEN [s EXCEPT !.to_user_id = NextUserId]
                        ELSE s : s \in shares}
     ELSE UNCHANGED <<users, shares>>

\* POST /documents/upload ; is_public: the INSERT leaves the column to the
\* schema's default, which the repository does not hold; only checkAccess
\* reads it
Upload(u, is_public) ==
  /\ u \in UserIds
  /\ Cardinality(documents) < MaxDocs
  /\ documents' = documents \cup
       {[document_id |-> NextDocId, owner_user_id |-> u, is_public |-> is_public]}
  /\ UNCHANGED <<now, users, shares, otps, dismissals, access_logs, resp, pc, loc>>

(* --------------------------- share creation --------------------------- *)
ResolveToUserId(to_email) ==
  IF UserRegistered(to_email) THEN UserByEmail(to_email).user_id ELSE NULL

\* the "Determine access type" rule
FinalAccess(access, to_user_id) ==
  IF access = "private" THEN "private"
  ELSE IF access = "public" THEN "public"
  ELSE IF to_user_id # NULL THEN "private" ELSE "public"

NewShare(d, u, to_user_id, to_user_email, access, expiry_time) ==
  [share_id |-> NextShareId, share_token |-> NextShareId,
   document_id |-> d, from_user_id |-> u,
   to_user_id |-> to_user_id, to_user_email |-> to_user_email,
   access |-> access, expiry_time |-> expiry_time,
   is_revoked |-> FALSE, revoked_at |-> NULL]

\* the request checks without the ownership query
CreateRejectedNoOwner(u, d, to_email, access, expiry_time) ==
  IF expiry_time # NULL /\ expiry_time <= now
  THEN Resp(400, "expiry_time must be in the future", NULL, FALSE)
  ELSE IF access = "private" /\ to_email = NULL
  THEN Resp(400, "Private share requires recipient email", NULL, FALSE)
  ELSE IF access = "private" /\ ResolveToUserId(to_email) = NULL
  THEN Resp(400, "Recipient must be registered for private shares", NULL, FALSE)
  ELSE Resp(0, "", NULL, FALSE)

\* the request checks both POST /shares handlers make before touching shares
CreateRejected(u, d, to_email, access, expiry_time) ==
  IF ~Owns(u, d)
  THEN Resp(404, "Document not found or not owned by user", NULL, FALSE)
  ELSE IF expiry_time # NULL /\ expiry_time <= now
  THEN Resp(400, "expiry_time must be in the future", NULL, FALSE)
  ELSE IF access = "private" /\ to_email = NULL
  THEN Resp(400, "Private share requires recipient email", NULL, FALSE)
  ELSE IF access = "private" /\ ResolveToUserId(to_email) = NULL
  THEN Resp(400, "Recipient must be registered for private shares", NULL, FALSE)
  ELSE Resp(0, "", NULL, FALSE)

\* the row POST /shares (routes/shares.routes.js) inserts
CreateShareRow(u, d, to_email, access, expiry_time) ==
  LET to_user_id == ResolveToUserId(to_email) IN
  NewShare(d, u, to_user_id,
           IF to_user_id # NULL THEN NULL ELSE to_email,
           FinalAccess(access, to_user_id), expiry_time)

CreateShareResp(u, d, to_email, access, expiry_time) ==
  LET rej == CreateRejected(u, d, to_email, access, expiry_time) IN
  IF rej.status # 0 THEN rej
  ELSE IF DuplicateActivePrivateShare(CreateShareRow(u, d, to_email, access, expiry_time))
  THEN Resp(400, "duplicate active private share", NULL, FALSE)
  ELSE Resp(201, "Document shared successfully", NextShareId, FALSE)

\* routes/shares.routes.js  POST /shares
CreateShare(u, d, to_email, access, expiry_time) ==
  /\ u \in UserIds
  /\ UNCHANGED <<now, users, documents, otps, dismissals, access_logs, resp, pc, loc>>
  /\ IF CreateShareResp(u, d, to_email, access, expiry_time).status = 201
     THEN /\ RoomForShare
          /\ shares' = shares \cup {CreateShareRow(u, d, to_email, access, expiry_time)}
     ELSE UNCHANGED shares

\* the IDEMPOTENT LOOKUP query of the idempotent POST /shares
ExistingMatches(d, u, finalAccess, to_user_id, to_email) ==
  LET p5 == IF finalAccess = "public" THEN NULL ELSE to_email
  IN {s \in shares :
        /\ s.document_id = d
        /\ s.from_user_id = u
        /\ s.access = finalAccess
        /\ ActiveShare(s)
        /\ \/ (to_user_id # NULL /\ s.to_user_id = to_user_id)
           \/ (to_user_id = NULL /\ Lower(s.to_user_email) = Lower(p5))}

\* ORDER BY created_at DESC LIMIT 1
Latest(rows) == CHOOSE s \in rows : \A t \in rows : t.share_id <= s.share_id

Existing(u, d, to_email, access) ==
  LET to_user_id == ResolveToUserId(to_email) IN
  ExistingMatches(d, u, FinalAccess(access, to_user_id), to_user_id, to_email)

\* the row the idempotent POST /shares inserts
IdemRow(u, d, to_user_id, finalAccess, to_email, expiry_time) ==
  NewShare(d, u, to_user_id,
           IF to_user_id # NULL THEN NULL
           ELSE IF finalAccess = "public" THEN NULL ELSE to_email,
           finalAccess, expiry_time)

CreateIdemRow(u, d, to_email, access, expiry_time) ==
  LET to_user_id == ResolveToUserId(to_email) IN
  IdemRow(u, d, to_user_id, FinalAccess(access, to_user_id), to_email, expiry_time)

Reusing(sh) ==
  Resp(200, "Active share already exists; reusing it.", sh.share_id, TRUE)

\* one request of the idempotent POST /shares handled without interleaving;
\* its catch branch re-runs the lookup, which the first lookup already
\* found empty
CreateShareIdemResp(u, d, to_email, access, expiry_time) ==
  LET rej == CreateRejected(u, d, to_email, access, expiry_time) IN
  IF rej.status # 0 THEN rej
  ELSE IF Existing(u, d, to_email, access) # {}
  THEN Reusing(Latest(Existing(u, d, to_email, access)))
  ELSE IF DuplicateActivePrivateShare(CreateIdemRow(u, d, to_email, access, expiry_time))
  THEN Resp(400, "duplicate active private share", NULL, FALSE)
  ELSE Resp(201, "Document shared successfully", NextShareId, FALSE)

CreateShareIdem(u, d, to_email, access, expiry_time) ==
  /\ u \in UserIds
  /\ UNCHANGED <<now, users, documents, otps, dismissals, access_logs, resp, pc, loc>>
  /\ IF CreateShareIdemResp(u, d, to_email, access, expiry_time).status = 201
     THEN /\ RoomForShare
          /\ shares' = shares \cup {CreateIdemRow(u, d, to_email, access, expiry_time)}
     ELSE UNCHANGED shares

\* the older POST /shares: the body's access is not read, the row is private
\* exactly when to_email resolves to a registered user
CreateOldRow(u, d, to_email, access, expiry_time) ==
  LET to_user_id == ResolveToUserId(to_email) IN
  NewShare(d, u, to_user_id,
           IF to_user_id # NULL THEN NULL ELSE to_email,
           IF to_user_id # NULL THEN "private" ELSE "public", expiry_time)

CreateOldResp(u, d, to_email, access, expiry_time) ==
  IF ~Owns(u, d) THEN Resp(404, "Document not found", NULL, FALSE)
  ELSE IF expiry_time # NULL /\ expiry_time <= now
  THEN Resp(400, "expiry_time must be in the future", NULL, FALSE)
  ELSE IF DuplicateActivePrivateShare(CreateOldRow(u, d, to_email, access, expiry_time))
  THEN Resp(500, "Server error", NULL, FALSE)
  ELSE Resp(201, "", NextShareId, FALSE)

CreateOld(u, d, to_email, access, expiry_time) ==
  /\ u \in UserIds
  /\ UNCHANGED <<now, users, documents, otps, dismissals, access_logs, resp, pc, loc>>
  /\ IF CreateOldResp(u, d, to_email, access, expiry_time).status = 201
     THEN /\ RoomForShare
          /\ shares' = shares \cup {CreateOldRow(u, d, to_email, access, expiry_time)}
     ELSE UNCHANGED shares

\* POST /shares/create : access defaults to "private", the recipient is
\* looked up but not required, expiry_time is not compared with the clock
CreateDirectAccess(access) == IF access = Unspecified THEN "private" ELSE access

CreateDirectRow(u, d, to_user_email, access, expiry_time) ==
  NewShare(d, u, ResolveToUserId(to_user_email), to_user_email,
           CreateDirectAccess(access), expiry_time)

CreateDirectResp(u, d, to_user_email, access, expiry_time) ==
  IF ~Owns(u, d) THEN Resp(404, "Document not found", NULL, FALSE)
  ELSE IF DuplicateActivePrivateShare(
            CreateDirectRow(u, d, to_user_email, access, expiry_time))
  THEN Resp(500, "Server error", NULL, FALSE)
  ELSE Resp(200, "", NextShareId, FALSE)

CreateDirect(u, d, to_user_email, access, expiry_time) ==
  /\ u \in UserIds
  /\ UNCHANGED <<now, users, documents, otps, dismissals, access_logs, resp, pc, loc>>
  /\ IF CreateDirectResp(u, d, to_user_email, access, expiry_time).status = 200
     THEN /\ RoomForShare
          /\ shares' = shares \cup
               {CreateDirectRow(u, d, to_user_email, access, expiry_time)}
     ELSE UNCHANGED shares

(* -------------------------- document deletion ------------------------- *)
DocDeleteResp(u, d) ==
  IF ~Owns(u, d) THEN Resp(404, "Document not found", NULL, FALSE)
  ELSE Resp(200, "", NULL, FALSE)

\* DELETE FROM documents WHERE document_id=$1, after the owner check
DocumentsAfterDelete(u, d) == IF Owns(u, d) THEN documents \ DocById(d) ELSE documents

\* the shares that the schema deletes with their document
CascadedShares(d) == {s \in shares : s.document_id = d}

SharesKeptOnDocDelete(u, d) == shares

SharesAfterDocDelete(u, d) == IF Owns(u, d) THEN shares \ CascadedShares(d) ELSE shares

\* cascade: whether the schema's foreign keys on shares(share_id), which the
\* repository does not hold, delete the rows that hang on a deleted share
OtpsAfterDocDelete(u, d, cascade) ==
  IF Owns(u, d) /\ cascade
  THEN {o \in otps : \A s \in CascadedShares(d) : o.share_id # s.share_id}
  ELSE otps

DismissalsAfterDocDelete(u, d, cascade) ==
  IF Owns(u, d) /\ cascade
  THEN {x \in dismissals : \A s \in CascadedShares(d) : x[1] # s.share_id}
  ELSE dismissals

\* routes/documents.routes.js  DELETE /documents/:document_id
DeleteDocument(u, d, cascade) ==
  /\ u \in UserIds
  /\ UNCHANGED <<now, users, access_logs, resp, pc, loc>>
  /\ documents' = DocumentsAfterDelete(u, d)
  /\ shares' = SharesAfterDocDelete(u, d)
  /\ otps' = OtpsAfterDocDelete(u, d, cascade)
  /\ dismissals' = DismissalsAfterDocDelete(u, d, cascade)

\* routes/shares.routes.js  DELETE /shares/documents/:document_id
DeleteDocumentLogged(u, d, cascade) ==
  /\ u \in UserIds
  /\ UNCHANGED <<now, users, resp, pc, loc>>
  /\ documents' = DocumentsAfterDelete(u, d)
  /\ shares' = SharesAfterDocDelete(u, d)
  /\ otps' = OtpsAfterDocDelete(u, d, cascade)
  /\ dismissals' = DismissalsAfterDocDelete(u, d, cascade)
  /\ access_logs' =
       IF Owns(u, d)
       THEN access_logs \cup {LogEntry(NULL, d, u, "document_delete")}
       ELSE access_logs

(* ------------------------ share state changes ------------------------- *)
OwnedShare(u, sid) == {s \in shares : s.share_id = sid /\ s.from_user_id = u}

RevokeResp(u, sid) ==
  IF OwnedShare(u, sid) = {} THEN Resp(404, "Share not found", NULL, FALSE)
  ELSE Resp(200, "", sid, FALSE)

\* UPDATE shares SET is_revoked = TRUE, revoked_at = now()
\*  WHERE share_id = $1 AND from_user_id = $2
RevokedShares(u, sid) ==
  {IF s.share_id = sid /\ s.from_user_id = u
   THEN [s EXCEPT !.is_revoked = TRUE, !.revoked_at = now]
   ELSE s : s \in shares}

\* the access_logs rows a handler adds for the shares of u it acted on
OwnerLog(u, sid, action) ==
  {LogEntry(sid, s.document_id, u, action) : s \in OwnedShare(u, sid)}

\* POST /shares/:share_id/revoke
RevokeShare(u, sid) ==
  /\ u \in UserIds
  /\ UNCHANGED <<now, users, documents, otps, dismissals, resp, pc, loc>>
  /\ shares' = RevokedShares(u, sid)
  /\ access_logs' = access_logs \cup OwnerLog(u, sid, "share_revoke")

\* a PATCH that finds only shares which have not expired
PatchExpiryRespActiveOnly(u, sid, expiry_time) ==
  IF expiry_time # NULL /\ expiry_time <= now
  THEN Resp(400, "expiry_time must be in the future or null", NULL, FALSE)
  ELSE IF {s \in OwnedShare(u, sid) : ~ExpiredLE(s)} = {}
  THEN Resp(404, "Share not found", NULL, FALSE)
  ELSE Resp(200, "", sid, FALSE)

\* the expiry test with "<" in place of "<="
PatchExpiryRespBefore(u, sid, expiry_time) ==
  IF expiry_time # NULL /\ expiry_time < now
  THEN Resp(400, "expiry_time must be in the future or null", NULL, FALSE)
  ELSE IF OwnedShare(u, sid) = {} THEN Resp(404, "Share not found", NULL, FALSE)
  ELSE Resp(200, "", sid, FALSE)

PatchExpiryResp(u, sid, expiry_time) ==
  IF expiry_time # NULL /\ expiry_time <= now
  THEN Resp(400, "expiry_time must be in the future or null", NULL, FALSE)
  ELSE IF OwnedShare(u, sid) = {} THEN Resp(404, "Share not found", NULL, FALSE)
  ELSE Resp(200, "", sid, FALSE)

SetExpiryAndRestore(s, expiry_time) ==
  [s EXCEPT !.expiry_time = expiry_time, !.is_revoked = FALSE]

\* UPDATE shares SET expiry_time=$1 WHERE share_id=$2
SetExpiryOf(s, expiry_time) == [s EXCEPT !.expiry_time = expiry_time]

PatchedShares(u, sid, expiry_time) ==
  IF PatchExpiryResp(u, sid, expiry_time).status = 200
  THEN {IF s.share_id = sid THEN SetExpiryOf(s, expiry_time) ELSE s : s \in shares}
  ELSE shares

PatchLogs(u, sid, expiry_time) ==
  IF PatchExpiryResp(u, sid, expiry_time).status = 200
  THEN access_logs \cup OwnerLog(u, sid, "share_expiry_update")
  ELSE access_logs

\* PATCH /shares/:share_id/expiry
PatchExpiry(u, sid, expiry_time) ==
  /\ u \in UserIds
  /\ UNCHANGED <<now, users, documents, otps, dismissals, resp, pc, loc>>
  /\ shares' = PatchedShares(u, sid, expiry_time)
  /\ access_logs' = PatchLogs(u, sid, expiry_time)

ExpireNowResp(u, sid) ==
  IF OwnedShare(u, sid) = {} THEN Resp(404, "Share not found", NULL, FALSE)
  ELSE Resp(200, "", sid, FALSE)

\* UPDATE shares SET expiry_time = now() WHERE share_id=$1, after the owner check
ExpiredNowShares(u, sid) ==
  {IF s.share_id = sid /\ s.from_user_id = u
   THEN [s EXCEPT !.expiry_time = now]
   ELSE s : s \in shares}

\* POST /shares/:share_id/expire-now
ExpireNow(u, sid) ==
  /\ u \in UserIds
  /\ UNCHANGED <<now, users, documents, otps, dismissals, resp, pc, loc>>
  /\ shares' = ExpiredNowShares(u, sid)
  /\ access_logs' = access_logs \cup OwnerLog(u, sid, "share_expired_now")

DeleteResp(u, sid) ==
  IF OwnedShare(u, sid) = {} THEN Resp(404, "Share not found", NULL, FALSE)
  ELSE Resp(200, "", sid, FALSE)

\* DELETE FROM shares WHERE share_id=$1 AND from_user_id=$2
SharesAfterDelete(u, sid) == shares \ OwnedShare(u, sid)

\* DELETE FROM otp_verifications WHERE share_id=$1 AND is_verified=FALSE, and,
\* when the foreign key of the table cascades, the verified rows with the share
OtpsAfterDelete(u, sid, cascade) ==
  IF OwnedShare(u, sid) = {} THEN otps
  ELSE {o \in otps : o.share_id # sid \/ (o.is_verified /\ ~cascade)}

DismissalsAfterDelete(u, sid, cascade) ==
  IF OwnedShare(u, sid) = {} \/ ~cascade THEN dismissals
  ELSE {d \in dismissals : d[1] # sid}

\* a delete that takes the rows logged for the share with it
DeleteSharePurgingLogs(u, sid, cascade) ==
  /\ u \in UserIds
  /\ UNCHANGED <<now, users, documents, resp, pc, loc>>
  /\ shares' = SharesAfterDelete(u, sid)
  /\ otps' = OtpsAfterDelete(u, sid, cascade)
  /\ dismissals' = DismissalsAfterDelete(u, sid, cascade)
  /\ access_logs' =
       IF OwnedShare(u, sid) = {} THEN access_logs
       ELSE {l \in access_logs : l.share_id # sid} \cup OwnerLog(u, sid, "share_delete")

\* DELETE /shares/:share_id ; cascade: whether the schema's foreign keys on
\* shares(share_id), which the repository does not hold, delete dependants
DeleteShare(u, sid, cascade) ==
  /\ u \in UserIds
  /\ UNCHANGED <<now, users, documents, resp, pc, loc>>
  /\ shares' = SharesAfterDelete(u, sid)
  /\ otps' = OtpsAfterDelete(u, sid, cascade)
  /\ dismissals' = DismissalsAfterDelete(u, sid, cascade)
  /\ access_logs' = access_logs \cup OwnerLog(u, sid, "share_delete")

\* GET /shares/:share_id/minimal
MinimalResp(sid) ==
  IF ShareById(sid) = {} THEN Resp(404, "Share not found", NULL, FALSE)
  ELSE LET s == CHOOSE x \in ShareById(sid) : TRUE IN
    IF s.is_revoked THEN Resp(403, "Share revoked", NULL, FALSE)
    ELSE IF ExpiredLE(s) THEN Resp(403, "Share expired", NULL, FALSE)
    ELSE Resp(200, "", sid, FALSE)

\* GET /shares/received : the shares listed for the users row u
ReceivedBy(u) ==
  {s \in shares :
     /\ \E d \in documents : d.document_id = s.document_id
     /\ \E f \in users : f.user_id = s.from_user_id
     /\ ~s.is_revoked
     /\ (s.expiry_time = NULL \/ s.expiry_time > now)
     /\ <<s.share_id, u.user_id>> \notin dismissals
     /\ \/ s.to_user_id = u.user_id
        \/ (s.to_user_id = NULL /\ s.to_user_email # NULL
            /\ Lower(s.to_user_email) = Lower(u.email))}

\* the share a recipient may hide from the received list
DismissibleBy(u, sid) ==
  {s \in shares :
     /\ s.share_id = sid
     /\ ActiveShare(s)
     /\ \/ s.to_user_id = u.user_id
        \/ (s.to_user_id = NULL /\ s.to_user_email # NULL
            /\ Lower(s.to_user_email) = Lower(u.email))}

DismissResp(u, sid) ==
  IF DismissibleBy(u, sid) = {}
  THEN Resp(404, "Share not found for this user", NULL, FALSE)
  ELSE Resp(200, "", sid, FALSE)

\* POST /shares/:share_id/dismiss   (req.user is the users row u)
Dismiss(u, sid) ==
  /\ u \in users
  /\ UNCHANGED <<now, users, documents, shares, otps, access_logs, resp, pc, loc>>
  /\ IF DismissResp(u, sid).status = 200
     THEN /\ <<sid, u.user_id>> \in dismissals \/ Rows < MaxRows
          /\ dismissals' = dismissals \cup {<<sid, u.user_id>>}
     ELSE UNCHANGED dismissals

(* -------------------------------- OTP --------------------------------- *)
NewOtp(user_id, share_id, code) ==
  [otp_id |-> NextOtpId, user_id |-> user_id, share_id |-> share_id,
   otp_code |-> code, expiry_time |-> now + OtpTtl, is_verified |-> FALSE]

\* "Recipient must match share target (to_user_id or to_user_email)"
NotIntendedRecipient(sh, user) ==
  \/ (sh.to_user_id # NULL /\ sh.to_user_id # user.user_id)
  \/ (sh.to_user_id = NULL /\ sh.to_user_email # NULL
      /\ Lower(sh.to_user_email) # Lower(user.email))

\* the checks of POST /shares/:share_id/otp/send before the INSERT
OtpSendRejected(sid, email) ==
  IF ShareById(sid) = {} THEN Resp(404, "Share not found", NULL, FALSE)
  ELSE LET sh == CHOOSE s \in ShareById(sid) : TRUE IN
    IF sh.is_revoked THEN Resp(403, "Share revoked", NULL, FALSE)
    ELSE IF sh.access # "private"
    THEN Resp(400, "OTP not required for public shares", NULL, FALSE)
    ELSE IF ExpiredLE(sh) THEN Resp(403, "Share expired", NULL, FALSE)
    ELSE IF ~UserRegistered(email) THEN Resp(400, "User must register first", NULL, FALSE)
    ELSE IF NotIntendedRecipient(sh, UserByEmail(email))
    THEN Resp(403, "Not the intended recipient", NULL, FALSE)
    ELSE Resp(0, "", NULL, FALSE)

\* mailOk: whether sendEmail resolves; its rejection lands in the catch
\* block after the row is stored
OtpSendResp(sid, email, mailOk) ==
  LET rej == OtpSendRejected(sid, email) IN
  IF rej.status # 0 THEN rej
  ELSE IF DuplicateActiveOtp(UserByEmail(email).user_id, sid)
  THEN Resp(429, "An active OTP already exists.", NULL, FALSE)
  ELSE IF mailOk THEN Resp(200, "", sid, FALSE)
  ELSE Resp(400, "Cannot send OTP", NULL, FALSE)

OtpInserted(sid, email) ==
  /\ OtpSendRejected(sid, email).status = 0
  /\ ~DuplicateActiveOtp(UserByEmail(email).user_id, sid)

\* routes/shares.routes.js  POST /shares/:share_id/otp/send
OtpSend(sid, email, code, mailOk) ==
  /\ UNCHANGED <<now, users, documents, shares, dismissals, resp, pc, loc>>
  /\ IF OtpInserted(sid, email)
     THEN /\ Rows < MaxRows
          /\ otps' = otps \cup {NewOtp(UserByEmail(email).user_id, sid, code)}
          /\ access_logs' =
               IF mailOk
               THEN access_logs \cup
                      LogOfShare(sid, UserByEmail(email).user_id, "otp_request")
               ELSE access_logs
     ELSE UNCHANGED <<otps, access_logs>>

\* the query without its "expiry_time > now()" condition
MatchingOtpsNoExpiry(sid, user_id, code) ==
  LET rows == {o \in otps : /\ o.share_id = sid
                            /\ o.user_id = user_id
                            /\ ~o.is_verified
                            /\ o.otp_code = code}
  IN {o \in rows : \A t \in rows : t.otp_id <= o.otp_id}

\* the query without its "otp_code=$3" condition
MatchingOtpsAnyCode(sid, user_id, code) ==
  LET rows == {o \in otps : /\ o.share_id = sid
                            /\ o.user_id = user_id
                            /\ ActiveOtp(o)}
  IN {o \in rows : \A t \in rows : t.otp_id <= o.otp_id}

\* the "Validate OTP" query: the newest unverified, unexpired row with the code
MatchingOtps(sid, user_id, code) ==
  LET rows == {o \in otps : /\ o.share_id = sid
                            /\ o.user_id = user_id
                            /\ ActiveOtp(o)
                            /\ o.otp_code = code}
  IN {o \in rows : \A t \in rows : t.otp_id <= o.otp_id}

OtpVerifyResp(sid, email, code) ==
  IF ~UserRegistered(email) THEN Resp(400, "User must register first", NULL, FALSE)
  ELSE IF MatchingOtps(sid, UserByEmail(email).user_id, code) = {}
  THEN Resp(400, "Invalid or expired OTP", NULL, FALSE)
  ELSE Resp(200, "", sid, FALSE)

\* routes/shares.routes.js  POST /shares/:share_id/otp/verify
\* UPDATE otp_verifications SET is_verified=TRUE WHERE otp_id=$1
OtpsAfterVerify(sid, email, code) ==
  IF OtpVerifyResp(sid, email, code).status = 200
  THEN {IF o \in MatchingOtps(sid, UserByEmail(email).user_id, code)
        THEN [o EXCEPT !.is_verified = TRUE] ELSE o : o \in otps}
  ELSE otps

OtpVerify(sid, email, code) ==
  /\ UNCHANGED <<now, users, documents, shares, dismissals, resp, pc, loc>>
  /\ otps' = OtpsAfterVerify(sid, email, code)
  /\ access_logs' =
       IF OtpVerifyResp(sid, email, code).status = 200
       THEN access_logs \cup LogOfShare(sid, UserByEmail(email).user_id, "otp_verify")
       ELSE access_logs

\* POST /otp/verify with body {user_id, share_id, otp_code}: the newest row
\* of the pair with the code, whatever its is_verified, is marked verified
\* unless its expiry_time lies before now
OtpVerifyByIdResp(user_id, sid, code) ==
  LET rows == {o \in otps : o.user_id = user_id /\ o.share_id = sid /\ o.otp_code = code}
  IN
  IF rows = {} THEN Resp(400, "Invalid OTP", NULL, FALSE)
  ELSE IF (CHOOSE o \in rows : \A t \in rows : t.otp_id <= o.otp_id).expiry_time < now
  THEN Resp(400, "OTP expired", NULL, FALSE)
  ELSE Resp(200, "", sid, FALSE)

\* "verify share exists & not expired"
OtpSendByIdRejected(sid) ==
  IF ShareById(sid) = {} THEN Resp(404, "Share not found", NULL, FALSE)
  ELSE IF ExpiredBefore(CHOOSE s \in ShareById(sid) : TRUE)
  THEN Resp(410, "Share expired", NULL, FALSE)
  ELSE Resp(0, "", NULL, FALSE)

OtpSendByIdResp(user_id, sid) ==
  LET rej == OtpSendByIdRejected(sid) IN
  IF rej.status # 0 THEN rej
  ELSE IF DuplicateActiveOtp(user_id, sid) THEN Resp(500, "Failed to create OTP", NULL, FALSE)
  ELSE Resp(200, "OTP generated (send via email in production)", sid, FALSE)

\* POST /otp/send  with body {user_id, share_id}
OtpSendById(user_id, sid, code) ==
  /\ user_id \in UserIds
  /\ UNCHANGED <<now, users, documents, shares, dismissals, access_logs, resp, pc, loc>>
  /\ IF OtpSendByIdResp(user_id, sid).status = 200
     THEN /\ Rows < MaxRows
          /\ otps' = otps \cup {NewOtp(user_id, sid, code)}
     ELSE UNCHANGED otps

(* -------------------------- access resolution ------------------------- *)
\* request inputs: authenticated user (req.user), share reference, claimed
\* e-mail header, x-user-id header, document id
ReqUsers == UserIds \cup {NULL}
ShareRefs == (1..MaxRows) \cup {NULL}
ReqEmails == Emails \cup {NULL}
HeaderIds == (1..MaxUsers) \cup {NULL}
DocIds == 1..MaxDocs
\* req.params.document_id, which need not be the id of a stored document
AnyDocIds == 1..(MaxDocs + 1)

\* the lookup without its "share_id = $1" condition
HasVerifiedOtpAnyShare(share_id, user_id) ==
  \E o \in otps : o.user_id = user_id /\ VerifiedOtp(o)

HasVerifiedOtp(share_id, user_id) ==
  \E o \in otps : o.share_id = share_id /\ o.user_id = user_id /\ VerifiedOtp(o)

\* a resolver that serves a private share to its authenticated recipient only
resolveAccessOfSender(req_user, token, email, document_id) ==
  IF token # NULL
  THEN IF ShareByToken(token) = {} THEN "none"
       ELSE LET share == CHOOSE s \in ShareByToken(token) : TRUE IN
         IF share.document_id # document_id THEN "none"
         ELSE IF share.is_revoked THEN "none"
         ELSE IF ExpiredLE(share) THEN "none"
         ELSE IF share.access = "public" THEN "public"
         ELSE IF email = NULL THEN "none"
         ELSE IF ~UserRegistered(Lower(email)) THEN "none"
         ELSE LET u == UserByEmail(Lower(email)) IN
           IF req_user # u.user_id THEN "none"
           ELSE IF share.to_user_id # NULL /\ share.to_user_id # u.user_id THEN "none"
           ELSE IF share.to_user_id = NULL /\ share.to_user_email # NULL
                   /\ Lower(share.to_user_email) # Lower(u.email) THEN "none"
           ELSE IF ~HasVerifiedOtp(share.share_id, u.user_id) THEN "none"
           ELSE "private"
  ELSE IF req_user # NULL /\ Owns(req_user, document_id) THEN "owner"
  ELSE "none"

\* routes/documents.routes.js resolveAccess: the access mode, "none" for null
resolveAccess(req_user, token, email, document_id) ==
  IF token # NULL
  THEN IF ShareByToken(token) = {} THEN "none"
       ELSE LET share == CHOOSE s \in ShareByToken(token) : TRUE IN
         IF share.document_id # document_id THEN "none"
         ELSE IF share.is_revoked THEN "none"
         ELSE IF ExpiredLE(share) THEN "none"
         ELSE IF share.access = "public" THEN "public"
         ELSE IF email = NULL THEN "none"
         ELSE IF ~UserRegistered(Lower(email)) THEN "none"
         ELSE LET u == UserByEmail(Lower(email)) IN
           IF share.to_user_id # NULL /\ share.to_user_id # u.user_id THEN "none"
           ELSE IF share.to_user_id = NULL /\ share.to_user_email # NULL
                   /\ Lower(share.to_user_email) # Lower(u.email) THEN "none"
           ELSE IF ~HasVerifiedOtp(share.share_id, u.user_id) THEN "none"
           ELSE "private"
  ELSE IF req_user # NULL /\ Owns(req_user, document_id) THEN "owner"
  ELSE "none"

\* "Explicit owner allow if logged-in and owns"
OwnerFallback(mode, req_user, document_id) ==
  IF mode = "none" /\ req_user # NULL /\ Owns(req_user, document_id)
  THEN "owner" ELSE mode

\* GET /documents/view/:document_id : <<status, message>>
ViewRoute(req_user, token, email, document_id) ==
  IF DocById(document_id) = {} THEN <<404, "Document not found">>
  ELSE LET access == OwnerFallback(resolveAccess(req_user, token, email, document_id),
                                   req_user, document_id) IN
    IF access = "none" THEN <<403, "Not authorized to view this document">>
    ELSE <<200, access>>

DownloadPublicAllowed(access) == FALSE

\* if (access.mode === "public") return 403 "Public shares are view-only"
DownloadPublicDenied(access) == access = "public"

\* GET /documents/download/:document_id : <<status, message>>
DownloadRoute(req_user, token, email, document_id) ==
  IF DocById(document_id) = {} THEN <<404, "Document not found">>
  ELSE LET access == OwnerFallback(resolveAccess(req_user, token, email, document_id),
                                   req_user, document_id) IN
    IF access = "none" THEN <<403, "Not authorized to download">>
    ELSE IF DownloadPublicDenied(access) THEN <<403, "Public shares are view-only">>
    ELSE <<200, access>>

ViewDoc(req_user, token, email, document_id) ==
  /\ req_user \in ReqUsers
  /\ LET r == ViewRoute(req_user, token, email, document_id) IN
       resp' = Served("view", r[1], r[2])
  /\ UNCHANGED <<now, store, pc, loc>>

DownloadDoc(req_user, token, email, document_id) ==
  /\ req_user \in ReqUsers
  /\ LET r == DownloadRoute(req_user, token, email, document_id) IN
       resp' = Served("download", r[1], r[2])
  /\ UNCHANGED <<now, store, pc, loc>>

\* the share-id gate of the first documents router: "ok" or the refusal text
canAccess(document_id, share_id, wantDownload, user_id) ==
  IF share_id = NULL THEN "Missing share_id"
  ELSE IF ShareById(share_id) = {} THEN "Share not found"
  ELSE LET sh == CHOOSE s \in ShareById(share_id) : TRUE IN
    IF sh.document_id # document_id THEN "Share/document mismatch"
    ELSE IF ExpiredBefore(sh) THEN "Share expired"
    ELSE IF sh.access = "public"
         THEN IF wantDownload THEN "Public shares are view-only" ELSE "ok"
    ELSE IF ~\E o \in otps : o.share_id = share_id /\ o.user_id = user_id
                             /\ o.is_verified
         THEN "OTP verification required"
    ELSE "ok"

\* GET /documents/view/:id and /documents/download/:id of that router
GateRoute(document_id, share_id, wantDownload, user_id) ==
  IF DocById(document_id) = {} THEN <<404, "Not found">>
  ELSE LET check == canAccess(document_id, share_id, wantDownload, user_id) IN
    IF check # "ok" THEN <<403, check>> ELSE <<200, "ok">>

GateView(document_id, share_id, user_id) ==
  /\ LET r == GateRoute(document_id, share_id, FALSE, user_id) IN
       resp' = Served("gate-view", r[1], r[2])
  /\ UNCHANGED <<now, store, pc, loc>>

GateDownload(document_id, share_id, user_id) ==
  /\ LET r == GateRoute(document_id, share_id, TRUE, user_id) IN
       resp' = Served("gate-download", r[1], r[2])
  /\ UNCHANGED <<now, store, pc, loc>>

\* the "shared access gate" checkAccess: "ok" or the refusal reason
checkAccess(document_id, req_user, shareId, token, email, forDownload) ==
  IF req_user # NULL /\ Owns(req_user, document_id) THEN "ok"
  ELSE
    LET byId == ShareById(shareId)
        byToken == {s \in ShareByToken(token) : s.document_id = document_id}
    IN
    IF shareId # NULL /\ byId = {} THEN "Share not found"
    ELSE IF shareId = NULL /\ token # NULL /\ byToken = {} THEN "Share not found"
    ELSE IF shareId = NULL /\ token = NULL
    THEN IF DocById(document_id) = {} THEN "Document not found"
         ELSE IF (CHOOSE x \in DocById(document_id) : TRUE).is_public /\ ~forDownload
         THEN "ok"
         ELSE "Not allowed"
    ELSE LET share == IF shareId # NULL THEN CHOOSE s \in byId : TRUE
                      ELSE CHOOSE s \in byToken : TRUE IN
      IF share.is_revoked THEN "Share revoked"
      ELSE IF ExpiredLE(share) THEN "Share expired"
      ELSE IF share.access = "public"
      THEN IF forDownload THEN "Public share cannot be downloaded" ELSE "ok"
      ELSE IF share.access = "private"
      THEN IF email = NULL THEN "Missing verified email"
           ELSE IF ~UserRegistered(Lower(email)) THEN "Email not registered"
           ELSE LET userId == UserByEmail(Lower(email)).user_id IN
             IF share.to_user_id # NULL /\ share.to_user_id # userId
             THEN "Not the intended recipient"
             ELSE IF share.to_user_id = NULL /\ share.to_user_email # NULL
                     /\ Lower(share.to_user_email) # Lower(email)
             THEN "Not the intended recipient"
             ELSE IF ~HasVerifiedOtp(share.share_id, userId)
             THEN "OTP not verified or expired"
             ELSE "ok"
      ELSE "Not allowed"

\* the view and download routes over checkAccess are mounted without the
\* auth middleware, so req.user is never set when they call the gate
\* gate.share?.share_id || null : the share the gate looked up
GateShareId(shareId, token) ==
  IF shareId # NULL THEN shareId
  ELSE IF ShareByToken(token) = {} THEN NULL
  ELSE (CHOOSE s \in ShareByToken(token) : TRUE).share_id

\* the audit row a served request adds
CheckedLogs(reason, document_id, shareId, token, action) ==
  IF reason = "ok"
  THEN access_logs \cup {LogEntry(GateShareId(shareId, token), document_id, NULL, action)}
  ELSE access_logs

CheckedView(document_id, shareId, token, email) ==
  /\ LET reason == checkAccess(document_id, NULL, shareId, token, email, FALSE) IN
       /\ resp' = IF reason = "ok" THEN Served("checked-view", 200, "ok")
                  ELSE Served("checked-view", 403, reason)
       /\ access_logs' = CheckedLogs(reason, document_id, shareId, token, "view")
  /\ UNCHANGED <<now, users, documents, shares, otps, dismissals, pc, loc>>

CheckedDownload(document_id, shareId, token, email) ==
  /\ LET reason == checkAccess(document_id, NULL, shareId, token, email, TRUE) IN
       /\ resp' = IF reason = "ok" THEN Served("checked-download", 200, "ok")
                  ELSE Served("checked-download", 403, reason)
       /\ access_logs' = CheckedLogs(reason, document_id, shareId, token, "download")
  /\ UNCHANGED <<now, users, documents, shares, otps, dismissals, pc, loc>>

\* utils canAccess by share id or share token; the row the un-ordered
\* LIMIT 1 returns is any row matching either reference
RefCandidates(share_id, share_token) ==
  {s \in shares : \/ (share_id # NULL /\ s.share_id = share_id)
                  \/ (share_token # NULL /\ s.share_token = share_token)}

canAccessRow(sh, document_id, wantDownload, user_email) ==
  IF sh.document_id # document_id THEN "Share/document mismatch"
  ELSE IF sh.is_revoked THEN "Share revoked"
  ELSE IF ExpiredBefore(sh) THEN "Share expired"
  ELSE IF sh.access = "public"
       THEN IF wantDownload THEN "Public shares are view-only" ELSE "ok"
  ELSE IF user_email = NULL THEN "Email required for private share"
  ELSE IF UsersByEmailExact(user_email) = {} THEN "User must register first"
  ELSE LET viewerUserId == (CHOOSE u \in UsersByEmailExact(user_email) : TRUE).user_id IN
    IF sh.to_user_id # NULL /\ sh.to_user_id # viewerUserId
    THEN "Not the intended recipient"
    ELSE IF sh.to_user_id = NULL /\ sh.to_user_email # NULL
            /\ Lower(sh.to_user_email) # Lower(user_email)
    THEN "Not the intended recipient"
    ELSE IF ~HasVerifiedOtp(sh.share_id, viewerUserId)
    THEN "OTP verification required"
    ELSE "ok"

\* the set of results canAccess can return for a request
canAccessByRef(document_id, share_id, share_token, wantDownload, user_email) ==
  IF share_id = NULL /\ share_token = NULL THEN {"Missing share reference"}
  ELSE IF RefCandidates(share_id, share_token) = {} THEN {"Share not found"}
  ELSE {canAccessRow(sh, document_id, wantDownload, user_email) :
          sh \in RefCandidates(share_id, share_token)}

\* check.viewerUserId || null : set only on the private path
ViewerOf(sh, user_email) ==
  IF sh.access = "private" /\ UsersByEmailExact(user_email) # {}
  THEN (CHOOSE u \in UsersByEmailExact(user_email) : TRUE).user_id
  ELSE NULL

\* a route that uses up the challenges of the shares it looked at
RefRouteConsuming(op, action, document_id, share_id, share_token, wantDownload, user_email) ==
  /\ \E r \in canAccessByRef(document_id, share_id, share_token, wantDownload, user_email) :
       /\ resp' = Served(op, IF r = "ok" THEN 200 ELSE 403, r)
       /\ otps' = IF r = "ok"
                  THEN {o \in otps : \A sh \in RefCandidates(share_id, share_token) :
                                       o.share_id # sh.share_id}
                  ELSE otps
  /\ UNCHANGED <<now, users, documents, shares, dismissals, access_logs, pc, loc>>

\* one request of the view (wantDownload FALSE) or download route
RefRoute(op, action, document_id, share_id, share_token, wantDownload, user_email) ==
  /\ IF DocById(document_id) = {}
     THEN resp' = Served(op, 404, "Not found") /\ UNCHANGED access_logs
     ELSE IF share_id = NULL /\ share_token = NULL
     THEN resp' = Served(op, 403, "Missing share reference") /\ UNCHANGED access_logs
     ELSE IF RefCandidates(share_id, share_token) = {}
     THEN resp' = Served(op, 403, "Share not found") /\ UNCHANGED access_logs
     ELSE \E sh \in RefCandidates(share_id, share_token) :
            LET check == canAccessRow(sh, document_id, wantDownload, user_email) IN
            IF check = "ok"
            THEN /\ resp' = Served(op, 200, "ok")
                 /\ access_logs' = access_logs \cup
                      {LogEntry(sh.share_id, document_id, ViewerOf(sh, user_email), action)}
            ELSE resp' = Served(op, 403, check) /\ UNCHANGED access_logs
  /\ UNCHANGED <<now, users, documents, shares, otps, dismissals, pc, loc>>

RefView(document_id, share_id, share_token, user_email) ==
  RefRoute("ref-view", "view", document_id, share_id, share_token, FALSE, user_email)

RefDownload(document_id, share_id, share_token, user_email) ==
  RefRoute("ref-download", "download", document_id, share_id, share_token, TRUE, user_email)

(* ------------------------- concurrent requests ------------------------ *)
\* Two requests run at once; each is suspended at the awaits of its handler,
\* and the second repeats the request of the first.
Done(p, status, sid, reused) ==
  /\ pc' = [pc EXCEPT ![p] = "done"]
  /\ loc' = [loc EXCEPT ![p].status = status, ![p].share_id = sid, ![p].reused = reused]

SameCreate(l, u, d, to_email, access, expiry_time) ==
  /\ l.op = "create" /\ l.u = u /\ l.d = d /\ l.to_email = to_email
  /\ l.access = access /\ l.expiry_time = expiry_time

\* idempotent POST /shares up to the access selection rule
IdemCheck(p, u, d, to_email, access, expiry_time) ==
  LET rej == CreateRejected(u, d, to_email, access, expiry_time)
      to_user_id == ResolveToUserId(to_email)
      l == [NoLoc EXCEPT !.op = "create", !.u = u, !.d = d, !.to_email = to_email,
                         !.access = access, !.expiry_time = expiry_time,
                         !.to_user_id = to_user_id,
                         !.finalAccess = FinalAccess(access, to_user_id)]
  IN
  /\ pc[p] = "idle"
  /\ u \in UserIds
  /\ \A q \in Procs \ {p} :
       pc[q] # "idle" => SameCreate(loc[q], u, d, to_email, access, expiry_time)
  /\ IF rej.status # 0
     THEN /\ pc' = [pc EXCEPT ![p] = "rejected"]
          /\ loc' = [loc EXCEPT ![p] = [l EXCEPT !.status = rej.status]]
     ELSE /\ pc' = [pc EXCEPT ![p] = "lookup"]
          /\ loc' = [loc EXCEPT ![p] = l]
  /\ UNCHANGED <<now, store, resp>>

\* await pool.query(existingSQL, existingArgs)
IdemLookup(p) ==
  LET l == loc[p]
      ex == ExistingMatches(l.d, l.u, l.finalAccess, l.to_user_id, l.to_email)
  IN
  /\ pc[p] = "lookup"
  /\ IF ex # {}
     THEN Done(p, 200, Latest(ex).share_id, TRUE)
     ELSE pc' = [pc EXCEPT ![p] = "insert"] /\ UNCHANGED loc
  /\ UNCHANGED <<now, store, resp>>

\* BEGIN; INSERT INTO shares ...; COMMIT
IdemInsert(p) ==
  LET l == loc[p]
      row == IdemRow(l.u, l.d, l.to_user_id, l.finalAccess, l.to_email, l.expiry_time)
  IN
  /\ pc[p] = "insert"
  /\ IF DuplicateActivePrivateShare(row)
     THEN pc' = [pc EXCEPT ![p] = "catch"] /\ UNCHANGED <<loc, shares>>
     ELSE shares' = shares \cup {row} /\ Done(p, 201, row.share_id, FALSE)
  /\ UNCHANGED <<now, users, documents, otps, dismissals, access_logs, resp>>

\* "Resolve access like before (minimal)" in the catch block
CatchAccess(access, to_user_id) ==
  IF access = "private" /\ to_user_id # NULL THEN "private"
  ELSE IF access = "public" THEN "public"
  ELSE IF to_user_id # NULL THEN "private" ELSE "public"

\* catch: ROLLBACK, then re-run the lookup from the request
IdemCatch(p) ==
  LET l == loc[p]
      to_user_id == ResolveToUserId(l.to_email)
      ex == ExistingMatches(l.d, l.u, CatchAccess(l.access, to_user_id), to_user_id,
                            l.to_email)
  IN
  /\ pc[p] = "catch"
  /\ IF ex # {}
     THEN Done(p, 200, Latest(ex).share_id, TRUE)
     ELSE Done(p, 400, NULL, FALSE)
  /\ UNCHANGED <<now, store, resp>>

\* the other request, once it has resolved its pair, asks for the same one
SamePair(p, user_id, sid) ==
  \A q \in Procs \ {p} : loc[q].u # NULL => (loc[q].u = user_id /\ loc[q].sid = sid)

\* POST /shares/:share_id/otp/send up to the INSERT; a request the checks
\* reject is answered at once and is over
SendCheck(p, sid, email) ==
  /\ pc[p] = "idle"
  /\ IF OtpSendRejected(sid, email).status # 0
     THEN UNCHANGED <<pc, loc>>
     ELSE /\ SamePair(p, UserByEmail(email).user_id, sid)
          /\ pc' = [pc EXCEPT ![p] = "send-insert"]
          /\ loc' = [loc EXCEPT ![p] = [NoLoc EXCEPT !.op = "send", !.sid = sid,
                                          !.u = UserByEmail(email).user_id]]
  /\ UNCHANGED <<now, store, resp>>

\* POST /otp/send up to the INSERT
SendByIdCheck(p, user_id, sid) ==
  /\ pc[p] = "idle"
  /\ user_id \in UserIds
  /\ IF OtpSendByIdRejected(sid).status # 0
     THEN UNCHANGED <<pc, loc>>
     ELSE /\ SamePair(p, user_id, sid)
          /\ pc' = [pc EXCEPT ![p] = "send-insert"]
          /\ loc' = [loc EXCEPT ![p] = [NoLoc EXCEPT !.op = "send-id", !.sid = sid,
                                          !.u = user_id]]
  /\ UNCHANGED <<now, store, resp>>

SendInsertUnchecked(p, code) ==
  LET l == loc[p] IN
  /\ pc[p] = "send-insert"
  /\ otps' = otps \cup {NewOtp(l.u, l.sid, code)}
  /\ IF l.op = "send"
     THEN pc' = [pc EXCEPT ![p] = "send-mail"] /\ UNCHANGED loc
     ELSE Done(p, 200, l.sid, FALSE)
  /\ UNCHANGED <<now, users, documents, shares, dismissals, access_logs, resp>>

\* the code is drawn and INSERT INTO otp_verifications runs, under the trigger
SendInsert(p, code) ==
  LET l == loc[p] IN
  /\ pc[p] = "send-insert"
  /\ IF DuplicateActiveOtp(l.u, l.sid)
     THEN /\ Done(p, IF l.op = "send" THEN 429 ELSE 500, NULL, FALSE)
          /\ UNCHANGED otps
     ELSE /\ otps' = otps \cup {NewOtp(l.u, l.sid, code)}
          /\ IF l.op = "send"
             THEN pc' = [pc EXCEPT ![p] = "send-mail"] /\ UNCHANGED loc
             ELSE Done(p, 200, l.sid, FALSE)
  /\ UNCHANGED <<now, users, documents, shares, dismissals, access_logs, resp>>

\* await sendEmail(...), the log insert and the response
SendMail(p, mailOk) ==
  /\ pc[p] = "send-mail"
  /\ Done(p, IF mailOk THEN 200 ELSE 400, IF mailOk THEN loc[p].sid ELSE NULL, FALSE)
  /\ access_logs' =
       IF mailOk THEN access_logs \cup LogOfShare(loc[p].sid, loc[p].u, "otp_request")
       ELSE access_logs
  /\ UNCHANGED <<now, users, documents, shares, otps, dismissals, resp>>

\* The revoke handler that runs in a transaction on a client of its own.
\* pool.connect() and BEGIN
RevokeTxBegin(p, u, sid) ==
  /\ pc[p] = "idle"
  /\ u \in UserIds
  /\ pc' = [pc EXCEPT ![p] = "rv-update"]
  /\ loc' = [loc EXCEPT ![p] = [NoLoc EXCEPT !.op = "revoke", !.u = u, !.sid = sid,
                                  !.client = TRUE, !.tx = TRUE, !.at = now]]
  /\ UNCHANGED <<now, store, resp>>

\* the UPDATE on the client; ok: whether the statement runs without error.
\* No row: ROLLBACK on the client and 404
RevokeTxUpdate(p, ok) ==
  /\ pc[p] = "rv-update"
  /\ IF ~ok THEN pc' = [pc EXCEPT ![p] = "rv-catch"] /\ UNCHANGED loc
     ELSE IF OwnedShare(loc[p].u, loc[p].sid) = {}
     THEN /\ pc' = [pc EXCEPT ![p] = "rv-finally"]
          /\ loc' = [loc EXCEPT ![p].tx = FALSE, ![p].status = 404]
     ELSE pc' = [pc EXCEPT ![p] = "rv-log"] /\ UNCHANGED loc
  /\ UNCHANGED <<now, store, resp>>

\* the INSERT INTO access_logs on the client, COMMIT and the response
RevokeTxLog(p, ok) ==
  LET l == loc[p] IN
  /\ pc[p] = "rv-log"
  /\ IF ok
     THEN /\ shares' = {IF s.share_id = l.sid /\ s.from_user_id = l.u
                        THEN [s EXCEPT !.is_revoked = TRUE, !.revoked_at = l.at]
                        ELSE s : s \in shares}
          /\ access_logs' = access_logs \cup OwnerLog(l.u, l.sid, "share_revoke")
          /\ pc' = [pc EXCEPT ![p] = "rv-finally"]
          /\ loc' = [loc EXCEPT ![p].tx = FALSE, ![p].status = 200, ![p].share_id = l.sid]
     ELSE /\ pc' = [pc EXCEPT ![p] = "rv-catch"]
          /\ UNCHANGED <<loc, shares, access_logs>>
  /\ UNCHANGED <<now, users, documents, otps, dismissals, resp>>

\* catch: pool.query("ROLLBACK") runs on another client of the pool, so the
\* transaction of the request's own client stays as it is; then 500
RevokeTxCatch(p) ==
  /\ pc[p] = "rv-catch"
  /\ pc' = [pc EXCEPT ![p] = "rv-finally"]
  /\ loc' = [loc EXCEPT ![p].status = 500]
  /\ UNCHANGED <<now, store, resp>>

\* finally: client.release()
RevokeTxRelease(p) ==
  /\ pc[p] = "rv-finally"
  /\ pc' = [pc EXCEPT ![p] = "done"]
  /\ loc' = [loc EXCEPT ![p].client = FALSE]
  /\ UNCHANGED <<now, store, resp>>

(* --------------------------- specifications --------------------------- *)
Accesses == {"private", "public", Unspecified}
Expiries == Times \cup {NULL}
ShareIds == 1..MaxRows

\* every handler that writes the store
NextStore ==
  \/ Tick
  \/ \E e \in Emails : Register(e)
  \/ \E u \in UserIds : Upload(u, FALSE)
  \/ \E u \in UserIds, d \in DocIds, e \in ReqEmails, a \in Accesses, x \in Expiries :
       CreateShare(u, d, e, a, x)
  \/ \E u \in UserIds, d \in DocIds, e \in ReqEmails, a \in Accesses, x \in Expiries :
       CreateShareIdem(u, d, e, a, x)
  \/ \E u \in UserIds, sid \in ShareIds : RevokeShare(u, sid)
  \/ \E u \in UserIds, sid \in ShareIds, x \in Expiries : PatchExpiry(u, sid, x)
  \/ \E u \in UserIds, sid \in ShareIds : ExpireNow(u, sid)
  \/ \E u \in users, sid \in ShareIds : Dismiss(u, sid)
  \/ \E sid \in ShareIds, e \in Emails, c \in Codes, m \in BOOLEAN : OtpSend(sid, e, c, m)
  \/ \E sid \in ShareIds, e \in Emails, c \in Codes : OtpVerify(sid, e, c)
  \/ \E u \in UserIds, sid \in ShareIds, c \in Codes : OtpSendById(u, sid, c)

SpecStore == Init /\ [][NextStore]_vars

\* the three create handlers and the handlers that rewrite a stored share
NextCreate ==
  \/ Tick
  \/ \E e \in Emails : Register(e)
  \/ \E u \in UserIds : Upload(u, FALSE)
  \/ \E u \in UserIds, d \in DocIds, e \in ReqEmails, a \in Accesses, x \in Expiries :
       CreateShare(u, d, e, a, x)
  \/ \E u \in UserIds, d \in DocIds, e \in ReqEmails, a \in Accesses, x \in Expiries :
       CreateShareIdem(u, d, e, a, x)
  \/ \E u \in UserIds, d \in DocIds, e \in ReqEmails, a \in Accesses, x \in Expiries :
       CreateDirect(u, d, e, a, x)
  \/ \E u \in UserIds, d \in DocIds, e \in ReqEmails, a \in Accesses, x \in Expiries :
       CreateOld(u, d, e, a, x)
  \/ \E u \in UserIds, sid \in ShareIds : RevokeShare(u, sid)

SpecCreate == Init /\ [][NextCreate]_vars

\* the document owner's delete next to the share and challenge handlers
NextDocs ==
  \/ Tick
  \/ \E e \in Emails : Register(e)
  \/ \E u \in UserIds : Upload(u, FALSE)
  \/ \E u \in UserIds, d \in DocIds, e \in ReqEmails, a \in Accesses, x \in Expiries :
       CreateShare(u, d, e, a, x)
  \/ \E sid \in ShareIds, e \in Emails, c \in Codes, m \in BOOLEAN : OtpSend(sid, e, c, m)
  \/ \E sid \in ShareIds, e \in Emails, c \in Codes : OtpVerify(sid, e, c)
  \/ \E u \in UserIds, d \in DocIds, cascade \in BOOLEAN : DeleteDocument(u, d, cascade)
  \/ \E u \in UserIds, d \in DocIds, cascade \in BOOLEAN : DeleteDocumentLogged(u, d, cascade)
  \/ \E u \in UserIds, sid \in ShareIds, cascade \in BOOLEAN : DeleteShare(u, sid, cascade)

SpecDocs == Init /\ [][NextDocs]_vars

\* the creator-only handlers of the share router, with the requests that
\* give their shares challenges and log rows
NextOwner ==
  \/ Tick
  \/ \E e \in Emails : Register(e)
  \/ \E u \in UserIds : Upload(u, FALSE)
  \/ \E u \in UserIds, d \in DocIds, e \in Emails, x \in Expiries :
       CreateShare(u, d, e, "private", x)
  \/ \E u \in UserIds, sid \in ShareIds : RevokeShare(u, sid)
  \/ \E u \in UserIds, sid \in ShareIds, x \in Expiries : PatchExpiry(u, sid, x)
  \/ \E u \in UserIds, sid \in ShareIds : ExpireNow(u, sid)
  \/ \E u \in UserIds, sid \in ShareIds, cascade \in BOOLEAN : DeleteShare(u, sid, cascade)
  \/ \E sid \in ShareIds, e \in Emails, c \in Codes, m \in BOOLEAN : OtpSend(sid, e, c, m)

SpecOwner == Init /\ [][NextOwner]_vars

\* the view and download routes of routes/documents.routes.js
Resolve ==
  \/ \E u \in ReqUsers, t \in ShareRefs, e \in ReqEmails, d \in DocIds : ViewDoc(u, t, e, d)
  \/ \E u \in ReqUsers, t \in ShareRefs, e \in ReqEmails, d \in DocIds : DownloadDoc(u, t, e, d)

\* the routes over the share-id gate
ResolveGate ==
  \/ \E d \in DocIds, sid \in ShareRefs, h \in HeaderIds : GateView(d, sid, h)
  \/ \E d \in DocIds, sid \in ShareRefs, h \in HeaderIds : GateDownload(d, sid, h)

\* the routes over checkAccess
ResolveChecked ==
  \/ \E d \in DocIds, sid \in ShareRefs, t \in ShareRefs, e \in ReqEmails :
       CheckedView(d, sid, t, e)
  \/ \E d \in DocIds, sid \in ShareRefs, t \in ShareRefs, e \in ReqEmails :
       CheckedDownload(d, sid, t, e)

\* the routes over the utils canAccess
ResolveRef ==
  \/ \E d \in DocIds, sid \in ShareRefs, t \in ShareRefs, e \in ReqEmails :
       RefView(d, sid, t, e)
  \/ \E d \in DocIds, sid \in ShareRefs, t \in ShareRefs, e \in ReqEmails :
       RefDownload(d, sid, t, e)

\* sharing, revocation, the OTP exchange and the routes that serve documents
NextAccess ==
  \/ Tick
  \/ \E e \in Emails : Register(e)
  \/ \E u \in UserIds : Upload(u, FALSE)
  \/ \E u \in UserIds, d \in DocIds, e \in ReqEmails, a \in Accesses, x \in Expiries :
       CreateShare(u, d, e, a, x)
  \/ \E u \in UserIds, sid \in ShareIds : RevokeShare(u, sid)
  \/ \E sid \in ShareIds, e \in Emails, c \in Codes, m \in BOOLEAN : OtpSend(sid, e, c, m)
  \/ \E sid \in ShareIds, e \in Emails, c \in Codes : OtpVerify(sid, e, c)
  \/ \E u \in UserIds, sid \in ShareIds, c \in Codes : OtpSendById(u, sid, c)

SpecAccess == Init /\ [][NextAccess \/ Resolve]_vars
SpecGate == Init /\ [][NextAccess \/ ResolveGate]_vars
SpecChecked == Init /\ [][NextAccess \/ ResolveChecked]_vars

\* the routes over checkAccess on documents of either is_public value
NextDocLevel ==
  \/ Tick
  \/ \E u \in UserIds, is_public \in BOOLEAN : Upload(u, is_public)
  \/ \E u \in UserIds, d \in DocIds, e \in ReqEmails, a \in Accesses, x \in Expiries :
       CreateShare(u, d, e, a, x)
  \/ ResolveChecked

SpecDocLevel == Init /\ [][NextDocLevel]_vars
SpecRef == Init /\ [][NextAccess \/ ResolveRef]_vars

\* two concurrent requests to the idempotent POST /shares
NextCreateRace ==
  \/ Tick
  \/ \E e \in Emails : Register(e)
  \/ \E u \in UserIds : Upload(u, FALSE)
  \/ \E p \in Procs, u \in UserIds, d \in DocIds, e \in ReqEmails, a \in Accesses,
        x \in Expiries : IdemCheck(p, u, d, e, a, x)
  \/ \E p \in Procs : IdemLookup(p)
  \/ \E p \in Procs : IdemInsert(p)
  \/ \E p \in Procs : IdemCatch(p)

SpecCreateRace == Init /\ [][NextCreateRace]_vars

\* two concurrent OTP requests against shares created beforehand
NextSendRace ==
  \/ Tick
  \/ \E e \in Emails : Register(e)
  \/ \E u \in UserIds : Upload(u, FALSE)
  \/ \E u \in UserIds, d \in DocIds, e \in Emails, x \in Expiries :
       CreateShare(u, d, e, "private", x)
  \/ \E sid \in ShareIds, e \in Emails, c \in Codes : OtpVerify(sid, e, c)
  \/ \E p \in Procs, sid \in ShareIds, e \in Emails : SendCheck(p, sid, e)
  \/ \E p \in Procs, u \in UserIds, sid \in ShareIds : SendByIdCheck(p, u, sid)
  \/ \E p \in Procs, c \in Codes : SendInsert(p, c)
  \/ \E p \in Procs, m \in BOOLEAN : SendMail(p, m)

SpecSendRace == Init /\ [][NextSendRace]_vars

\* the view and download routes of the four document routers, on shares
\* with and without a verified challenge
NextResolve ==
  \/ Tick
  \/ \E u \in UserIds : Upload(u, FALSE)
  \/ \E u \in UserIds, d \in DocIds, e \in Emails, a \in {"private", "public"} :
       CreateShare(u, d, e, a, NULL)
  \/ \E sid \in ShareIds, e \in Emails, c \in Codes : OtpSend(sid, e, c, TRUE)
  \/ \E sid \in ShareIds, e \in Emails, c \in Codes : OtpVerify(sid, e, c)
  \/ Resolve
  \/ ResolveGate
  \/ ResolveChecked
  \/ ResolveRef

SpecResolve == Init /\ [][NextResolve]_vars

\* two requests to the transactional revoke, whose statements may fail
NextRevokeTx ==
  \/ Tick
  \/ \E u \in UserIds : Upload(u, FALSE)
  \/ \E u \in UserIds, d \in DocIds, x \in Expiries : CreateShare(u, d, NULL, "public", x)
  \/ \E p \in Procs, u \in UserIds, sid \in ShareIds : RevokeTxBegin(p, u, sid)
  \/ \E p \in Procs, ok \in BOOLEAN : RevokeTxUpdate(p, ok)
  \/ \E p \in Procs, ok \in BOOLEAN : RevokeTxLog(p, ok)
  \/ \E p \in Procs : RevokeTxCatch(p)
  \/ \E p \in Procs : RevokeTxRelease(p)

SpecRevokeTx == Init /\ [][NextRevokeTx]_vars

(* ------------------------------ properties ---------------------------- *)
UserById(id) == CHOOSE u \in users : u.user_id = id

\* C1: once a share is revoked, no view or download that references it, by
\* token or by id, with any viewer identity and any OTP state, is let through
C1_RevokedDenied ==
  \A s \in shares : s.is_revoked =>
    /\ \A u \in ReqUsers, e \in ReqEmails, d \in DocIds :
         resolveAccess(u, s.share_token, e, d) = "none"
    /\ \A d \in DocIds, h \in HeaderIds, w \in BOOLEAN :
         canAccess(d, s.share_id, w, h) # "ok"

\* C2: a private share lets a requester in only while a verified challenge
\* for (that viewer, that share) exists whose expiry_time is still ahead
C2_PrivateNeedsVerifiedOtp ==
  \A s \in shares : s.access = "private" =>
    /\ \A u \in ReqUsers, e \in ReqEmails, d \in DocIds :
         (~Owns(u, d) /\ resolveAccess(u, s.share_token, e, d) = "private") =>
           /\ UserRegistered(e)
           /\ HasVerifiedOtp(s.share_id, UserByEmail(e).user_id)
    /\ \A d \in DocIds, h \in HeaderIds, w \in BOOLEAN :
         (~Owns(h, d) /\ canAccess(d, s.share_id, w, h) = "ok") =>
           HasVerifiedOtp(s.share_id, h)

\* C3: a download requested through a public share is never served, whoever
\* asks and whatever e-mail or OTP state comes with the request: the only
\* download such a request can get is the one the document's owner gets
C3_PublicNeverDownload ==
  \A s \in shares : s.access = "public" =>
    /\ \A u \in ReqUsers, e \in ReqEmails, d \in DocIds :
         DownloadRoute(u, s.share_token, e, d)[1] = 200 => Owns(u, d)
    /\ \A u \in ReqUsers, e \in ReqEmails, d \in DocIds, t \in ShareRefs :
         /\ checkAccess(d, u, s.share_id, t, e, TRUE) = "ok" => Owns(u, d)
         /\ checkAccess(d, u, NULL, s.share_token, e, TRUE) = "ok" => Owns(u, d)
    /\ \A d \in DocIds, h \in HeaderIds : canAccess(d, s.share_id, TRUE, h) # "ok"
    /\ \A d \in DocIds, e \in ReqEmails : canAccessRow(s, d, TRUE, e) # "ok"

\* a download through a public share has just been refused as view-only
C3_Witness ==
  /\ resp.op = "download"
  /\ resp.status = 403
  /\ resp.msg = "Public shares are view-only"
  /\ \E s \in shares : s.access = "public" /\ ActiveShare(s)

\* C4: the authenticated owner of a document is served both view and
\* download, whatever share reference the request also carries
C4_OwnerAlwaysAllowed ==
  \A u \in UserIds, d \in DocIds : Owns(u, d) =>
    \A t \in ShareRefs, e \in ReqEmails :
      /\ ViewRoute(u, t, e, d)[1] = 200
      /\ DownloadRoute(u, t, e, d)[1] = 200

\* C5: a private share never lets in a registered user other than its bound
\* recipient, even when a verified challenge row exists for that user
C5_OnlyBoundRecipient ==
  \A s \in shares : s.access = "private" =>
    /\ \A u \in ReqUsers, e \in ReqEmails, d \in DocIds :
         resolveAccess(u, s.share_token, e, d) = "private" =>
           ~NotIntendedRecipient(s, UserByEmail(e))
    /\ \A d \in DocIds, e \in Emails, w \in BOOLEAN :
         (UsersByEmailExact(e) # {} /\ canAccessRow(s, d, w, e) = "ok") =>
           ~NotIntendedRecipient(s, UserByEmail(e))
    /\ \A d \in DocIds, h \in UserIds, w \in BOOLEAN :
         (NotIntendedRecipient(s, UserById(h)) /\ ~Owns(h, d)) =>
           canAccess(d, s.share_id, w, h) # "ok"

C7_RepeatCreateReturnsSame ==
  \A s \in shares : ActiveShare(s) =>
    \A u \in UserIds, d \in DocIds, e \in ReqEmails, a \in Accesses, x \in Expiries :
      CreateRejected(u, d, e, a, x).status = 0 =>
        /\ ShareTuple(CreateIdemRow(u, d, e, a, x)) = ShareTuple(s) =>
             /\ CreateShareIdemResp(u, d, e, a, x).status # 201
             /\ CreateShareIdemResp(u, d, e, a, x).share_id = s.share_id
        /\ ShareTuple(CreateShareRow(u, d, e, a, x)) = ShareTuple(s) =>
             /\ CreateShareResp(u, d, e, a, x).status # 201
             /\ CreateShareResp(u, d, e, a, x).share_id = s.share_id

\* C8: of two concurrent Creates that resolve to the same document, creator,
\* recipient and access, one inserts the row and the other returns that row
\* marked reused
C8_ConcurrentCreateOnce ==
  \A p \in Procs, q \in Procs :
    (/\ p # q
     /\ pc[p] = "done" /\ pc[q] = "done"
     /\ loc[p].status = 201
     /\ loc[q].to_user_id = loc[p].to_user_id
     /\ loc[q].finalAccess = loc[p].finalAccess
     /\ \E s \in shares : s.share_id = loc[p].share_id /\ ActiveShare(s))
    => (loc[q].status = 200 /\ loc[q].reused /\ loc[q].share_id = loc[p].share_id)

\* C9: at most one share that is neither revoked nor expired exists per
\* (document, creator, recipient identity, access)
C9_OneActivePerTuple ==
  \A s \in shares, t \in shares :
    (ActiveShare(s) /\ ActiveShare(t) /\ ShareTuple(s) = ShareTuple(t)) => s = t

\* C10: no handler step turns is_revoked of a share back to false
C10_RevokedMonotone ==
  [][\A s \in shares : s.is_revoked =>
       \A t \in shares' : t.share_id = s.share_id => t.is_revoked]_vars

\* a challenge was issued and verified on a share after it had been revoked
C10_Witness ==
  \E s \in shares, o \in otps :
    /\ s.is_revoked
    /\ o.share_id = s.share_id
    /\ o.is_verified
    /\ o.expiry_time - OtpTtl > s.revoked_at

\* C11: every stored share with access = private carries a recipient user id
\* or a recipient e-mail, from its insertion on
C11_PrivateHasRecipient ==
  \A s \in shares :
    s.access = "private" => (s.to_user_id # NULL \/ s.to_user_email # NULL)

\* C12: every stored share with access = public carries neither a recipient
\* user id nor a recipient e-mail, whatever e-mail the Create request held
C12_PublicHasNoRecipient ==
  \A s \in shares :
    s.access = "public" => (s.to_user_id = NULL /\ s.to_user_email = NULL)

\* C13: on an active private share bound to recipient R, a challenge of R
\* that was verified before its expiry_time lets R view and download; a
\* Verify with the code of a challenge whose expiry_time has come answers
\* "Invalid or expired OTP" and leaves that challenge unverified
C13_SendVerifyRoundTrip ==
  /\ \A s \in shares, r \in users, o \in otps :
       ( /\ s.access = "private" /\ ActiveShare(s)
         /\ ~NotIntendedRecipient(s, r)
         /\ o.share_id = s.share_id /\ o.user_id = r.user_id
         /\ o.is_verified /\ o.expiry_time > now )
       => /\ ViewRoute(NULL, s.share_token, r.email, s.document_id) = <<200, "private">>
          /\ DownloadRoute(NULL, s.share_token, r.email, s.document_id) = <<200, "private">>
  /\ \A o \in otps, r \in users :
       (r.user_id = o.user_id /\ ~o.is_verified /\ o.expiry_time <= now)
       => /\ o \notin MatchingOtps(o.share_id, r.user_id, o.otp_code)
          /\ o \in OtpsAfterVerify(o.share_id, r.email, o.otp_code)
          /\ (\A t \in otps \ {o} : t.share_id # o.share_id \/ t.user_id # o.user_id)
             => OtpVerifyResp(o.share_id, r.email, o.otp_code)
                  = Resp(400, "Invalid or expired OTP", NULL, FALSE)

\* the bound recipient has just downloaded through the private share with a
\* verified challenge that has not expired
C13_Witness ==
  /\ resp.op = "download" /\ resp.status = 200 /\ resp.msg = "private"
  /\ \E s \in shares, r \in users, o \in otps :
       /\ s.access = "private" /\ ActiveShare(s) /\ ~NotIntendedRecipient(s, r)
       /\ o.share_id = s.share_id /\ o.user_id = r.user_id
       /\ o.is_verified /\ o.expiry_time > now

\* C14: a verified challenge keeps admitting its (user, share) while
\* now < its expiry_time, and once its expiry_time has come every access
\* check for that (user, share) is refused until another challenge is
\* verified
C14_VerifiedUntilExpiry ==
  \A s \in shares, r \in users, o \in otps :
    ( /\ s.access = "private" /\ ActiveShare(s) /\ ~NotIntendedRecipient(s, r)
      /\ ~Owns(r.user_id, s.document_id)
      /\ o.share_id = s.share_id /\ o.user_id = r.user_id /\ o.is_verified )
    => IF HasVerifiedOtp(s.share_id, r.user_id)
       THEN /\ resolveAccess(NULL, s.share_token, r.email, s.document_id) = "private"
            /\ \A w \in BOOLEAN : canAccess(s.document_id, s.share_id, w, r.user_id) = "ok"
       ELSE /\ resolveAccess(NULL, s.share_token, r.email, s.document_id) = "none"
            /\ \A w \in BOOLEAN :
                 canAccess(s.document_id, s.share_id, w, r.user_id)
                   = "OTP verification required"

\* C15: while a challenge is active, a Verify with any other code answers
\* "Invalid or expired OTP" and changes no challenge row, download stays
\* refused as long as no challenge is verified, and a Verify with the
\* challenge's own code still succeeds and turns exactly that row verified,
\* after which download is served
C15_WrongCodeNoEffect ==
  \A s \in shares, r \in users, o \in otps :
    ( /\ s.access = "private" /\ ActiveShare(s) /\ ~NotIntendedRecipient(s, r)
      /\ o.share_id = s.share_id /\ o.user_id = r.user_id )
    => /\ ActiveOtp(o) =>
            /\ \A c \in Codes \ {o.otp_code} :
                 /\ OtpVerifyResp(s.share_id, r.email, c)
                      = Resp(400, "Invalid or expired OTP", NULL, FALSE)
                 /\ OtpsAfterVerify(s.share_id, r.email, c) = otps
            /\ OtpVerifyResp(s.share_id, r.email, o.otp_code).status = 200
            /\ OtpsAfterVerify(s.share_id, r.email, o.otp_code)
                 = (otps \ {o}) \cup {[o EXCEPT !.is_verified = TRUE]}
       /\ ~HasVerifiedOtp(s.share_id, r.user_id) =>
            DownloadRoute(NULL, s.share_token, r.email, s.document_id)
              = <<403, "Not authorized to download">>
       /\ VerifiedOtp(o) =>
            DownloadRoute(NULL, s.share_token, r.email, s.document_id)[1] = 200

\* the bound recipient holds an active challenge that is not verified yet
\* and the download has just been refused
C15_Witness ==
  /\ resp.op = "download" /\ resp.status = 403
  /\ resp.msg = "Not authorized to download"
  /\ \E s \in shares, r \in users, o \in otps :
       /\ s.access = "private" /\ ActiveShare(s) /\ ~NotIntendedRecipient(s, r)
       /\ o.share_id = s.share_id /\ o.user_id = r.user_id /\ ActiveOtp(o)

\* C16: a Verify on a private share that names the e-mail of a registered
\* user other than the share's bound recipient answers "Not the intended
\* recipient" and verifies no challenge, whatever code it carries
C16_VerifyWrongRecipient ==
  \A s \in shares, r \in users :
    (s.access = "private" /\ s.to_user_id # NULL /\ NotIntendedRecipient(s, r))
    => \A c \in Codes :
         /\ OtpVerifyResp(s.share_id, r.email, c)
              = Resp(403, "Not the intended recipient", NULL, FALSE)
         /\ OtpsAfterVerify(s.share_id, r.email, c) = otps

\* C17: a Send for the bound recipient of an active private share succeeds
\* and stores a new challenge also while an earlier challenge of that
\* (user, share) is still active
C17_ResendReplaces ==
  \A s \in shares, r \in users, o \in otps :
    ( /\ s.access = "private" /\ ActiveShare(s) /\ ~NotIntendedRecipient(s, r)
      /\ o.share_id = s.share_id /\ o.user_id = r.user_id /\ ActiveOtp(o) )
    => /\ OtpSendResp(s.share_id, r.email, TRUE).status = 200
       /\ OtpInserted(s.share_id, r.email)

\* C18: a Send for an absent share, a revoked share, a public share, an
\* expired share, an unregistered e-mail or a registered user who is not
\* the bound recipient is refused with the answer of that case and stores no
\* challenge, on both send handlers
C18_SendFailureKinds ==
  \A sid \in ShareIds, e \in Emails, u \in UserIds :
    LET live == OtpSendResp(sid, e, TRUE)
        byId == OtpSendByIdResp(u, sid)
    IN
    IF ShareById(sid) = {}
    THEN /\ live.status = 404 /\ ~OtpInserted(sid, e)
         /\ byId.status = 404
    ELSE LET sh == CHOOSE s \in ShareById(sid) : TRUE IN
      /\ sh.is_revoked =>
           /\ live = Resp(403, "Share revoked", NULL, FALSE) /\ ~OtpInserted(sid, e)
           /\ byId.status # 200
      /\ (~sh.is_revoked /\ sh.access = "public") =>
           /\ live = Resp(400, "OTP not required for public shares", NULL, FALSE)
           /\ ~OtpInserted(sid, e)
           /\ byId.status # 200
      /\ (~sh.is_revoked /\ sh.access = "private" /\ ExpiredLE(sh)) =>
           /\ live = Resp(403, "Share expired", NULL, FALSE) /\ ~OtpInserted(sid, e)
           /\ byId.status # 200
      /\ (ActiveShare(sh) /\ sh.access = "private" /\ ~UserRegistered(e)) =>
           /\ live = Resp(400, "User must register first", NULL, FALSE)
           /\ ~OtpInserted(sid, e)
      /\ (ActiveShare(sh) /\ sh.access = "private" /\ UserRegistered(e)
          /\ NotIntendedRecipient(sh, UserByEmail(e))) =>
           /\ live = Resp(403, "Not the intended recipient", NULL, FALSE)
           /\ ~OtpInserted(sid, e)
      /\ (ActiveShare(sh) /\ sh.access = "private"
          /\ NotIntendedRecipient(sh, UserById(u))) => byId.status # 200

\* C19: a Send whose challenge row is stored answers the same whether the
\* mail with the code is delivered or not: it reports success
C19_MailFailureHarmless ==
  \A sid \in ShareIds, e \in Emails :
    OtpInserted(sid, e) =>
      /\ OtpSendResp(sid, e, FALSE) = OtpSendResp(sid, e, TRUE)
      /\ OtpSendResp(sid, e, FALSE).status = 200

\* C20: Revoke, SetExpiry, ExpireNow and Delete asked for by a user who is
\* not the share's creator answer 404 "Share not found" and leave the
\* shares, the challenges, the dismissals and the audit log as they were
C20_NonCreatorNotFound ==
  \A s \in shares, u \in UserIds : u # s.from_user_id =>
    /\ RevokeResp(u, s.share_id).status = 404
    /\ RevokedShares(u, s.share_id) = shares
    /\ ExpireNowResp(u, s.share_id).status = 404
    /\ ExpiredNowShares(u, s.share_id) = shares
    /\ DeleteResp(u, s.share_id).status = 404
    /\ SharesAfterDelete(u, s.share_id) = shares
    /\ \A cascade \in BOOLEAN :
         /\ OtpsAfterDelete(u, s.share_id, cascade) = otps
         /\ DismissalsAfterDelete(u, s.share_id, cascade) = dismissals
    /\ \A action \in {"share_revoke", "share_expired_now", "share_delete"} :
         OwnerLog(u, s.share_id, action) = {}
    /\ \A x \in Expiries :
         /\ PatchExpiryResp(u, s.share_id, x).status = 404
         /\ PatchedShares(u, s.share_id, x) = shares
         /\ PatchLogs(u, s.share_id, x) = access_logs

\* C21: a Revoke by the creator on a share that is already revoked answers
\* success and leaves every share row, is_revoked and revoked_at included,
\* as it was
C21_RevokeIdempotent ==
  \A s \in shares : s.is_revoked =>
    /\ RevokeResp(s.from_user_id, s.share_id).status = 200
    /\ RevokedShares(s.from_user_id, s.share_id) = shares

\* C22: a SetExpiry by the creator with a value that is null or later than
\* now answers success and changes exactly the expiry_time of that share to
\* the value; with a value at or before now it answers 400 and changes no
\* share; is_revoked, access and the recipient columns are never touched
C22_SetExpiryExact ==
  \A s \in shares, x \in Expiries :
    IF x = NULL \/ x > now
    THEN /\ PatchExpiryResp(s.from_user_id, s.share_id, x).status = 200
         /\ PatchedShares(s.from_user_id, s.share_id, x)
              = (shares \ {s}) \cup {[s EXCEPT !.expiry_time = x]}
    ELSE /\ PatchExpiryResp(s.from_user_id, s.share_id, x).status = 400
         /\ PatchedShares(s.from_user_id, s.share_id, x) = shares

\* a SetExpiry has been served and its share carries an expiry still ahead
C22_Witness ==
  \E l \in access_logs, s \in shares :
    /\ l.action = "share_expiry_update" /\ l.share_id = s.share_id
    /\ s.expiry_time # NULL /\ s.expiry_time > now

\* C23: from the instant ExpireNow wrote into expiry_time on, and for as
\* long as that expiry_time is not after now, the share lets no requester
\* in through any resolution and a Send for it is refused as expired
C23_ExpireNowInactive ==
  \A s \in shares :
    ( /\ \E l \in access_logs : l.share_id = s.share_id /\ l.action = "share_expired_now"
      /\ s.expiry_time # NULL /\ s.expiry_time <= now )
    => /\ \A e \in ReqEmails :
            resolveAccess(NULL, s.share_token, e, s.document_id) = "none"
       /\ \A e \in Emails : ~OtpInserted(s.share_id, e)
       /\ (~s.is_revoked /\ s.access = "private") =>
            \A e \in Emails :
              OtpSendResp(s.share_id, e, TRUE) = Resp(403, "Share expired", NULL, FALSE)
       /\ \A e \in ReqEmails, w \in BOOLEAN :
            canAccessRow(s, s.document_id, w, e) \in {"Share expired", "Share revoked"}

\* C24: every operation that tests a share's expiry treats the share as
\* expired at exactly the instants with expiry_time <= now: the access
\* resolutions, Send, the minimal projection, the received list and the
\* lookup of the idempotent create
C24_ExpiryBoundary ==
  \A s \in shares : (~s.is_revoked /\ s.expiry_time # NULL) =>
    LET expired == s.expiry_time <= now IN
    /\ (MinimalResp(s.share_id) = Resp(403, "Share expired", NULL, FALSE)) <=> expired
    /\ \A e \in ReqEmails :
         /\ expired => resolveAccess(NULL, s.share_token, e, s.document_id) = "none"
         /\ (s.access = "public" /\ ~expired) =>
              resolveAccess(NULL, s.share_token, e, s.document_id) = "public"
         /\ (canAccessRow(s, s.document_id, FALSE, e) = "Share expired") <=> expired
    /\ s.access = "private" =>
         \A e \in Emails :
           (OtpSendRejected(s.share_id, e) = Resp(403, "Share expired", NULL, FALSE))
             <=> expired
    /\ \A u \in users : s \in ReceivedBy(u) => ~expired
    /\ \A u \in UserIds, e \in ReqEmails, a \in Accesses :
         s \in Existing(u, s.document_id, e, a) => ~expired

\* C25: once a document is deleted none of its shares is left, so that no
\* view, download, Send or minimal lookup can succeed through one of them:
\* every stored share references a stored document, every request for a
\* document that is not stored is refused, and every request through a
\* share reference that is not stored is refused, also while verified
\* challenges of the deleted share are still on record
C25_DeletedDocumentUnusable ==
  /\ \A s \in shares : DocById(s.document_id) # {}
  /\ \A d \in DocIds : DocById(d) = {} =>
       \A u \in ReqUsers, t \in ShareRefs, e \in ReqEmails :
         /\ ViewRoute(u, t, e, d)[1] = 404
         /\ DownloadRoute(u, t, e, d)[1] = 404
  /\ \A sid \in ShareIds : ShareById(sid) = {} =>
       /\ MinimalResp(sid).status = 404
       /\ \A e \in Emails :
            OtpSendResp(sid, e, TRUE).status = 404 /\ ~OtpInserted(sid, e)
       /\ \A d \in DocIds, e \in ReqEmails :
            resolveAccess(NULL, sid, e, d) = "none"
       /\ \A d \in DocIds, h \in HeaderIds, w \in BOOLEAN :
            canAccess(d, sid, w, h) = "Share not found"

\* a document that had a share is gone, and a verified challenge of that
\* share is still on record
C25_Witness ==
  /\ documents = {} /\ shares = {}
  /\ \E o \in otps : o.is_verified /\ o.expiry_time > now

\* C26: a Create for a document that is not stored or is not owned by the
\* requester answers 404 on every create handler, and every stored share
\* is a share of a document its creator owns
C26_CreateNeedsOwnedDocument ==
  /\ \A s \in shares : Owns(s.from_user_id, s.document_id)
  /\ \A u \in UserIds, d \in DocIds, e \in ReqEmails, a \in Accesses, x \in Expiries :
       ~Owns(u, d) =>
         /\ CreateShareResp(u, d, e, a, x).status = 404
         /\ CreateShareIdemResp(u, d, e, a, x).status = 404

\* a registered user who does not own the stored document is refused while
\* the owner's share of it exists
C26_Witness ==
  /\ shares # {}
  /\ \E u \in UserIds, d \in DocIds :
       /\ DocById(d) # {} /\ ~Owns(u, d)
       /\ CreateShareResp(u, d, NULL, "public", NULL)
            = Resp(404, "Document not found or not owned by user", NULL, FALSE)

\* C27: a Create whose expiry_time is not later than now answers 400 on
\* every create handler and inserts nothing, so every share that is stored
\* with an expiry got it while that expiry was still ahead
C27_CreateExpiryFuture ==
  \A u \in UserIds, d \in DocIds, e \in ReqEmails, a \in Accesses, x \in Times :
    (Owns(u, d) /\ x <= now) =>
      /\ CreateShareResp(u, d, e, a, x)
           = Resp(400, "expiry_time must be in the future", NULL, FALSE)
      /\ CreateDirectResp(u, d, e, a, x).status = 400

\* C28: for a Create that passes the document and expiry checks, requested
\* private without an e-mail answers 400 "requires recipient email",
\* requested private with an unregistered e-mail answers 400 "must be
\* registered", and otherwise the inserted row's access is private for
\* requested private, public for requested public, and for no requested
\* access private exactly when the e-mail resolves to a registered user
C28_ResolvedAccess ==
  \A u \in UserIds, d \in DocIds, e \in ReqEmails, a \in Accesses, x \in Expiries :
    (Owns(u, d) /\ (x = NULL \/ x > now)) =>
      LET expected == IF a = Unspecified
                      THEN IF UserRegistered(e) THEN "private" ELSE "public"
                      ELSE a
      IN
      IF a = "private" /\ e = NULL
      THEN /\ CreateRejected(u, d, e, a, x)
                = Resp(400, "Private share requires recipient email", NULL, FALSE)
           /\ CreateOldResp(u, d, e, a, x).status = 400
      ELSE IF a = "private" /\ ~UserRegistered(e)
      THEN /\ CreateRejected(u, d, e, a, x)
                = Resp(400, "Recipient must be registered for private shares", NULL, FALSE)
           /\ CreateOldResp(u, d, e, a, x).status = 400
      ELSE /\ CreateRejected(u, d, e, a, x).status = 0
           /\ CreateShareRow(u, d, e, a, x).access = expected
           /\ CreateOldRow(u, d, e, a, x).access = expected

C30_ShareOfOtherDocument ==
  \A s \in shares, d \in AnyDocIds : d # s.document_id =>
    \A e \in ReqEmails, w \in BOOLEAN :
      /\ resolveAccess(NULL, s.share_token, e, d) = "none"
      /\ canAccessRow(s, d, w, e) = "Share/document mismatch"
      /\ \A h \in HeaderIds : canAccess(d, s.share_id, w, h) = "Share/document mismatch"
      /\ checkAccess(d, NULL, NULL, s.share_token, e, w) # "ok"
      /\ \A t \in ShareRefs : checkAccess(d, NULL, s.share_id, t, e, w) # "ok"

\* C31: a request is decided on one share: for every request and every store
\* state the share-reference gate has exactly one possible outcome, also when
\* the share id and the share token of the request name different shares
C31_OneShareConsulted ==
  \A d \in DocIds, sid \in ShareRefs, t \in ShareRefs, w \in BOOLEAN, e \in ReqEmails :
    Cardinality(canAccessByRef(d, sid, t, w, e)) = 1

\* C32: a view or download request, served or refused, leaves users,
\* documents, shares, challenges and dismissals as they were; the one table
\* it may write is access_logs, and there it only adds rows
C32_ResolutionFrame ==
  [][\/ /\ UNCHANGED <<users, documents, shares, otps, dismissals>>
        /\ access_logs \subseteq access_logs'
     \/ ~(Resolve \/ ResolveGate \/ ResolveChecked \/ ResolveRef)]_vars

\* a private share was just served on its verified challenge: the view is on
\* record and the challenge and the share are still stored
C32_Witness ==
  /\ resp.op = "ref-view" /\ resp.status = 200
  /\ \E s \in shares, o \in otps, l \in access_logs :
       /\ s.access = "private"
       /\ o.share_id = s.share_id /\ VerifiedOtp(o)
       /\ l.share_id = s.share_id /\ l.action = "view" /\ l.viewer_user_id = o.user_id



\* C33: a handler of several statements is atomic: a Send that answers with
\* an error has stored no challenge row
C33_ErrorMeansNoWrite ==
  \A sid \in ShareIds, e \in Emails, m \in BOOLEAN :
    OtpSendResp(sid, e, m).status >= 400 => ~OtpInserted(sid, e)

\* C34: no stored share carries a recipient user id and a recipient e-mail
\* at the same time, also after its pending recipient has registered
C34_RecipientIdOrEmail ==
  \A s \in shares : ~(s.to_user_id # NULL /\ s.to_user_email # NULL)

\* C35: no handler step removes or rewrites a row of access_logs: every
\* row on record before a step is on record after it, also when the share
\* or the document the row names is deleted by the step
C35_LogOnlyGrows ==
  [][access_logs \subseteq access_logs']_vars

\* a share and its document are gone, and the rows that recorded the
\* challenge request on the share and the two deletions are on record
C35_Witness ==
  \E l \in access_logs, k \in access_logs, m \in access_logs :
    /\ l.action = "share_delete" /\ ShareById(l.share_id) = {}
    /\ k.action = "otp_request" /\ k.share_id = l.share_id
    /\ m.action = "document_delete" /\ DocById(m.document_id) = {}
    /\ m.document_id = l.document_id

C37_VerifyOnce ==
  \A o \in otps : o.is_verified =>
    /\ \A c \in Codes : o \notin MatchingOtps(o.share_id, o.user_id, c)
    /\ (\A t \in otps :
          (t.share_id = o.share_id /\ t.user_id = o.user_id /\ t.otp_code = o.otp_code)
            => t.is_verified) =>
         /\ \A e \in Emails :
              (UserRegistered(e) /\ UserByEmail(e).user_id = o.user_id) =>
                /\ OtpVerifyResp(o.share_id, e, o.otp_code)
                     = Resp(400, "Invalid or expired OTP", NULL, FALSE)
                /\ OtpsAfterVerify(o.share_id, e, o.otp_code) = otps
         /\ OtpVerifyByIdResp(o.user_id, o.share_id, o.otp_code).status = 400

\* C38: expiry can be undone and revocation cannot: the creator's PATCH of a
\* null or future expiry on an expired share that is not revoked is accepted
\* and leaves the share active; an active share is decided on its current
\* row alone (a public one is viewable, a private one lets its recipient in
\* on a verified challenge that has not expired), whatever happened to it
\* before; and a revoked share stays revoked under PATCH and expire-now and
\* lets no request in
C38_ExpiryReversible ==
  /\ \A s \in shares, x \in Expiries :
       (~s.is_revoked /\ ExpiredLE(s) /\ (x = NULL \/ x > now)) =>
         /\ PatchExpiryResp(s.from_user_id, s.share_id, x).status = 200
         /\ \E t \in PatchedShares(s.from_user_id, s.share_id, x) :
              t = [s EXCEPT !.expiry_time = x]
  /\ \A s \in shares : ActiveShare(s) =>
       \A e \in ReqEmails :
         /\ s.access = "public" =>
              ViewRoute(NULL, s.share_token, e, s.document_id) = <<200, "public">>
         /\ (/\ s.access = "private" /\ UserRegistered(e)
             /\ ~NotIntendedRecipient(s, UserByEmail(e))
             /\ HasVerifiedOtp(s.share_id, UserByEmail(e).user_id)) =>
              /\ ViewRoute(NULL, s.share_token, e, s.document_id) = <<200, "private">>
              /\ DownloadRoute(NULL, s.share_token, e, s.document_id) = <<200, "private">>
  /\ \A s \in shares : s.is_revoked =>
       /\ \A u \in UserIds, x \in Expiries :
            /\ \A t \in PatchedShares(u, s.share_id, x) :
                 t.share_id = s.share_id => t.is_revoked
            /\ \A t \in ExpiredNowShares(u, s.share_id) :
                 t.share_id = s.share_id => t.is_revoked
       /\ \A u \in ReqUsers, e \in ReqEmails, d \in DocIds :
            resolveAccess(u, s.share_token, e, d) = "none"

\* a private share that was expired at once and then given back an open
\* expiry serves its recipient on the challenge verified before it expired
C38_Witness ==
  \E s \in shares, o \in otps, l \in access_logs, k \in access_logs :
    /\ s.access = "private" /\ ActiveShare(s)
    /\ o.share_id = s.share_id /\ VerifiedOtp(o) /\ o.user_id = s.to_user_id
    /\ l.share_id = s.share_id /\ l.action = "share_expired_now"
    /\ k.share_id = s.share_id /\ k.action = "share_expiry_update"
    /\ \E e \in Emails : resolveAccess(NULL, s.share_token, e, s.document_id) = "private"

\* C39: through a private share the requester counts only by the e-mail the
\* request claims: resolveAccess gives every authenticated or anonymous
\* sender the same answer for the same token, e-mail and document, the view
\* and download routes answer all senders who do not own the document
\* alike, and while the recipient's challenge is verified and unexpired
\* every sender that presents the recipient's e-mail is served
C39_DecisionByClaimedEmail ==
  \A s \in shares : s.access = "private" =>
    \A e \in ReqEmails, d \in DocIds :
      /\ \A u1 \in ReqUsers, u2 \in ReqUsers :
           /\ resolveAccess(u1, s.share_token, e, d) = resolveAccess(u2, s.share_token, e, d)
           /\ (~Owns(u1, d) /\ ~Owns(u2, d)) =>
                /\ ViewRoute(u1, s.share_token, e, d) = ViewRoute(u2, s.share_token, e, d)
                /\ DownloadRoute(u1, s.share_token, e, d)
                     = DownloadRoute(u2, s.share_token, e, d)
      /\ (/\ ActiveShare(s) /\ d = s.document_id /\ UserRegistered(e)
          /\ ~NotIntendedRecipient(s, UserByEmail(e))
          /\ HasVerifiedOtp(s.share_id, UserByEmail(e).user_id)) =>
           \A u \in ReqUsers :
             /\ ViewRoute(u, s.share_token, e, d)[1] = 200
             /\ DownloadRoute(u, s.share_token, e, d)[1] = 200

\* within the verified window of a private share a registered user who is
\* neither its recipient nor the document's owner is served, like an
\* anonymous sender, on the recipient's e-mail
C39_Witness ==
  \E s \in shares, e \in Emails, u \in UserIds :
    /\ s.access = "private" /\ ActiveShare(s)
    /\ u # s.to_user_id /\ ~Owns(u, s.document_id)
    /\ HasVerifiedOtp(s.share_id, s.to_user_id)
    /\ ViewRoute(u, s.share_token, e, s.document_id) = <<200, "private">>
    /\ ViewRoute(NULL, s.share_token, e, s.document_id) = <<200, "private">>

\* C40: a request that is over has answered and has given its pool client
\* back with no transaction open on it, also when a statement failed
C40_AnsweredAndReleased ==
  \A p \in Procs : pc[p] = "done" =>
    /\ loc[p].status # 0
    /\ ~loc[p].client
    /\ ~loc[p].tx



====
